---------------------------- MODULE Spec2Model ----------------------------
(***************************************************************************)
(* A model of pinguis' iterative test-generation engine: the DeepWorker    *)
(* scheduler (worker package, DeepWorker) on top of the GoWorkerPool       *)
(* (worker/worker.go).                                                     *)
(*                                                                         *)
(* Granularity: one action per operation on shared state (a channel send   *)
(* or receive, a critical section of a mutex, a blocking external call     *)
(* returning).  Local computation is folded into the shared operation that *)
(* follows it.  The return of a closure to its executor is a step of its   *)
(* own (worker.go:72-73), since the executor is busy until then.           *)
(*                                                                         *)
(* Environment: clients call SubmitTask from any thread at any time; Run   *)
(* and Shutdown are called from one controlling thread; a call of the      *)
(* model (Generate) or of the coverage callback returns a result or an     *)
(* error.                                                                  *)
(*                                                                         *)
(* Specifications over the same variables:                                 *)
(*   Spec, FairSpec    the scheduler with one configured worker;           *)
(*   ConfigSpec        the scheduler for configured counts -1, 0 and 1;    *)
(*   PoolSpec, PoolFairSpec, PoolStuckSpec                                 *)
(*                     the pool alone, driven by one client that calls     *)
(*                     Run, Submit and Shutdown, with closures that        *)
(*                     return or panic (or, in PoolStuckSpec, may never    *)
(*                     return);                                            *)
(*   DetSpec           the scheduler with a fixed sequence of calls and    *)
(*                     deterministic stubs, only the scheduling free;      *)
(*   CancelSpec        DetSpec with Shutdown, and a Generate that may      *)
(*                     return the error of its cancelled context;          *)
(*   LockSpec          the scheduler with dw.mu.Lock() and every critical  *)
(*                     section of dw.mu as steps of their own;             *)
(*   MinSpec           MinimizePaths on every list of short paths;         *)
(*   EnumSpec          CollectPathsPython and CollectPathsJava on small    *)
(*                     syntax trees, with Go's slices and append;          *)
(*   PathSpec          the code type and the test path of a task, for      *)
(*                     source paths as character sequences;                *)
(*   SymSpec           SymPromptWorker.SubmitSymTask on small source files *)
(*                     with calls that succeed or fail.                    *)
(***************************************************************************)
EXTENDS Integers, Sequences, FiniteSets, TLC

(***************************************************************************)
(* Bounds of the model.                                                    *)
(***************************************************************************)
\* Total number of SubmitTask calls made by clients.
MaxSubmitCalls == 3
\* Total number of lifecycle calls (DeepWorker.Run and DeepWorker.Shutdown).
MaxLifecycleCalls == 2
\* Total number of lifecycle calls made on a pool used on its own
\* (GoWorkerPool.Run and GoWorkerPool.Shutdown).
MaxPoolCalls == 4
\* Slots of dw.tasks per configured worker.  The code allocates
\* config.WorkerCount * 5 slots; the model keeps the channel bounded but
\* scales the factor down so that a saturated queue is reached with the
\* source paths of the model.
TasksPerWorker == 1
\* Slots of the pool's queue per executor (workerCount * 10 in the code),
\* scaled down for the same reason.
PoolSlotsPerWorker == 1

(***************************************************************************)
(* Configuration (DeepWorkerConfig).  Coverage is a float64 in the code;   *)
(* the model counts it in tenths, so 8 stands for 0.8.                     *)
(***************************************************************************)
\* The worker count the scheduler of Spec is configured with.
WorkerCount == 1
MaxIterations == 1
CoverageThreshold == 8
\* The coverages the callback may report: two below, one at and one above
\* the threshold.
Coverages == {1, 5, 8, 9}

\* The source paths clients submit.
Paths == {"a.py", "b.go"}

\* The worker counts a pool is constructed with: negative, zero, one, two.
PoolWorkerCounts == {-1, 0, 1, 2}
\* The largest number of executors one Run starts.
MaxPoolWorkers == CHOOSE n \in PoolWorkerCounts : \A m \in PoolWorkerCounts : m <= n

\* Every pool.Run that finds the pool stopped starts a batch of executors.
WorkerIds == 1..(MaxPoolWorkers * MaxLifecycleCalls)
DispatcherIds == 1..MaxLifecycleCalls

VARIABLES
    workerCount,   \* the configured worker count (config.WorkerCount)
    activeTasks,   \* dw.activeTasks: sourcePath -> the record SubmitTask made
    tasks,         \* dw.tasks: the channel of task records
    ctxDone,       \* dw.ctx has been cancelled
    dispatcher,    \* the goroutines started by Run: [pc, task]
    poolRunning,   \* wp.running
    poolQuit,      \* wp.quit is closed
    poolTasks,     \* wp.tasks: the channel of closures (each holds a taskCopy)
    worker,        \* the executors: [pc, task, err]
    poolStarts,    \* number of batches of executors started so far
    shutdown,      \* the controlling thread: idle, its position inside
                   \* Shutdown, or dead of a panic
    runCalls,      \* Run calls made
    shutdownCalls, \* Shutdown calls made
    submitCalls,   \* SubmitTask calls made
    submitErr,     \* the error the last SubmitTask call returned
    llmCalls,      \* per path: Generate calls made for the task last accepted
    sym,           \* the call of the symbolic-path extractor in progress
                   \* (CollectPaths*, MinimizePaths): its arguments and locals
    mu,            \* dw.mu: the thread that holds it
    client         \* the threads calling SubmitTask or GetTaskStatus: [pc, op, path]

vars == <<workerCount, activeTasks, tasks, ctxDone, dispatcher, poolRunning, poolQuit,
          poolTasks, worker, poolStarts, shutdown, runCalls, shutdownCalls,
          submitCalls, submitErr, llmCalls, sym, mu, client>>

dwVars == <<activeTasks, tasks, ctxDone, dispatcher>>
poolVars == <<poolRunning, poolQuit, poolTasks, worker, poolStarts>>
callVars == <<shutdown, runCalls, shutdownCalls, submitCalls, submitErr>>

\* NewGoWorkerPool: if workerCount <= 0 { workerCount = 1 }
PoolWorkerCount == IF workerCount <= 0 THEN 1 ELSE workerCount
\* NewGoWorkerPool: tasks: make(chan func(), workerCount*10).
PoolCap == PoolWorkerCount * PoolSlotsPerWorker
\* NewDeepWorker: tasks: make(chan *TestTask, config.WorkerCount * 5).
TasksCap == workerCount * TasksPerWorker

\* No call of the symbolic-path extractor is in progress.
NoSym == [op |-> "none"]

\* The threads that call SubmitTask and GetTaskStatus concurrently.
ClientIds == {1, 2}

\* The threads that take dw.mu, and Free for the unlocked mutex.
Free == [kind |-> "none", id |-> 0]
Client(c) == [kind |-> "client", id |-> c]
Executor(w) == [kind |-> "executor", id |-> w]
Dispatcher(d) == [kind |-> "dispatcher", id |-> d]

\* A client thread that is not inside a call.
NoCall == [pc |-> "idle", op |-> "none", path |-> ""]

\* The zero TestTask.
NoTask == [SourcePath |-> "", Iterations |-> 0, BestCoverage |-> 0]

(***************************************************************************)
(* Helpers translated from the code.                                       *)
(***************************************************************************)
\* SubmitTask: task := &TestTask{... Iterations: 0, BestCoverage: 0.0 ...}
NewTask(sourcePath) ==
    [SourcePath |-> sourcePath, Iterations |-> 0, BestCoverage |-> 0]

\* Mutant: the duplicate check never finds the path.
Exists_never(sourcePath) == FALSE

\* SubmitTask: _, exists := dw.activeTasks[sourcePath]
Exists(sourcePath) == sourcePath \in DOMAIN activeTasks

\* dw.activeTasks[sourcePath] = task
InsertTask(table, task) ==
    [q \in DOMAIN table \cup {task.SourcePath} |->
        IF q = task.SourcePath THEN task ELSE table[q]]

\* Mutant: the entry is not deleted.
completeTask_noDelete(table, sourcePath) == table

\* completeTask: delete(dw.activeTasks, sourcePath) under dw.mu
completeTask(table, sourcePath) ==
    [q \in DOMAIN table \ {sourcePath} |-> table[q]]

\* The process has not died of a panic (close of the closed quit channel).
Alive == shutdown # "panic"

\* The buffer of dw.tasks has room.  A send that finds none does not proceed
\* at once: a non-blocking send takes its default case, and so it may when
\* the channel has no buffer and the receiver is not yet waiting.
TasksHasRoom == Len(tasks) < TasksCap

\* The dispatchers that are at the select of their loop, where they receive
\* from dw.tasks.
Receivers == {d \in DispatcherIds : dispatcher[d].pc = "select"}

\* A dispatcher that has received task: taskCopy := *task; dw.pool.Submit(...)
\* up to Submit's check of wp.running: a pool that is not running refuses at
\* once.
Received(task) ==
    [pc |-> IF poolRunning THEN "submit" ELSE "requeue", task |-> task]

\* The outcomes <<tasks, dispatcher>> of a send of task on dw.tasks that
\* proceeds: into the buffer when the channel has one and it has room, else
\* (config.WorkerCount = 0, no buffer) into the hands of a dispatcher that is
\* receiving.
SendTask(task) ==
    IF TasksCap > 0
    THEN IF TasksHasRoom THEN {<<Append(tasks, task), dispatcher>>} ELSE {}
    ELSE {<<tasks, [dispatcher EXCEPT ![d] = Received(task)]>> : d \in Receivers}

\* A send on wp.tasks can proceed.
PoolHasRoom == Len(poolTasks) < PoolCap

\* Run: taskCopy := *task
TaskCopy(task) == task

\* Mutant: the error of Generate is ignored.
AfterGenerate_ignoreError(ok) == "callback"

\* processTask: msg, err := dw.model.Generate(...); if err != nil { complete;
\* return }: where the closure goes when Generate has returned.
AfterGenerate(ok) == IF ok THEN "callback" ELSE "return"

\* Mutant: the last coverage is stored, not the best.
UpdateBest_last(task, coverage) == [task EXCEPT !.BestCoverage = coverage]

\* processTask: if coverage > task.BestCoverage { task.BestCoverage = coverage }
UpdateBest(task, coverage) ==
    [task EXCEPT !.BestCoverage =
        IF coverage > task.BestCoverage THEN coverage ELSE task.BestCoverage]

\* Mutant: one retry too many.
ShouldRetry_offByOne(task, coverage) ==
    coverage < CoverageThreshold /\ task.Iterations <= MaxIterations

\* Mutant: the iteration bound is not checked.
ShouldRetry_unbounded(task, coverage) == coverage < CoverageThreshold

\* Mutant: a coverage equal to the threshold is retried.
ShouldRetry_atThreshold(task, coverage) ==
    coverage <= CoverageThreshold /\ task.Iterations < MaxIterations

\* processTask: coverage < dw.coverageThreshold && task.Iterations < dw.maxIterations
ShouldRetry(task, coverage) ==
    coverage < CoverageThreshold /\ task.Iterations < MaxIterations

TypeOK ==
    /\ DOMAIN activeTasks \subseteq Paths
    /\ Len(tasks) <= TasksCap
    /\ Len(poolTasks) <= PoolCap
    /\ ctxDone \in BOOLEAN

\* NewDeepWorker: make(chan *TestTask, config.WorkerCount * 5) panics when the
\* size is negative; otherwise the constructor returns.
Construction == IF TasksCap < 0 THEN "panic" ELSE "idle"

\* The state NewGoWorkerPool and NewDeepWorker construct.
NewState ==
    /\ activeTasks = <<>>
    /\ tasks = <<>>
    /\ ctxDone = FALSE
    /\ dispatcher = [d \in DispatcherIds |-> [pc |-> "unstarted", task |-> NoTask]]
    /\ poolRunning = FALSE
    /\ poolQuit = FALSE
    /\ poolTasks = <<>>
    /\ worker = [w \in WorkerIds |-> [pc |-> "unstarted", task |-> NoTask, err |-> "none"]]
    /\ poolStarts = 0
    /\ runCalls = 0
    /\ shutdownCalls = 0
    /\ submitCalls = 0
    /\ submitErr = "none"
    /\ llmCalls = [p \in Paths |-> 0]
    /\ mu = Free
    /\ client = [c \in ClientIds |-> NoCall]

Init ==
    /\ workerCount = WorkerCount
    /\ shutdown = Construction
    /\ NewState
    /\ sym = NoSym

\* The worker counts a scheduler is configured with: negative, zero, one.
ConfigWorkerCounts == {-1, 0, 1}

\* The scheduler under every configured worker count.
ConfigInit ==
    /\ workerCount \in ConfigWorkerCounts
    /\ shutdown = Construction
    /\ NewState
    /\ sym = NoSym

(***************************************************************************)
(* DeepWorker.SubmitTask(sourceCode, sourcePath), one critical section of  *)
(* dw.mu with a non-blocking send inside.                                  *)
(***************************************************************************)
SubmitTask(sourcePath) ==
    /\ Alive
    /\ submitCalls < MaxSubmitCalls
    /\ submitCalls' = submitCalls + 1
    /\ IF Exists(sourcePath)
       THEN /\ submitErr' = "duplicate"
            /\ UNCHANGED <<activeTasks, tasks, dispatcher, llmCalls>>
       ELSE \/ \E sent \in SendTask(NewTask(sourcePath)) :
                  /\ activeTasks' = InsertTask(activeTasks, NewTask(sourcePath))
                  /\ tasks' = sent[1]
                  /\ dispatcher' = sent[2]
                  /\ llmCalls' = [llmCalls EXCEPT ![sourcePath] = 0]
                  /\ submitErr' = "nil"
            \/ \* inserted, send refused, deleted again: all under dw.mu
               /\ ~TasksHasRoom
               /\ activeTasks' = completeTask(InsertTask(activeTasks, NewTask(sourcePath)), sourcePath)
               /\ submitErr' = "queue full"
               /\ UNCHANGED <<tasks, dispatcher, llmCalls>>
    /\ UNCHANGED <<ctxDone, shutdown, runCalls, shutdownCalls>>
    /\ UNCHANGED poolVars
    /\ UNCHANGED <<workerCount, sym, mu, client>>

\* Mutant: Run starts executors whenever it is called.
RunIsNoOp_never == FALSE

\* GoWorkerPool.Run: if wp.running { return }
RunIsNoOp == poolRunning

(***************************************************************************)
(* GoWorkerPool.Run: a no-op on a running pool, else workerCount executors *)
(* are started and running is set, under wp.mu.                            *)
(***************************************************************************)
PoolRun ==
    IF RunIsNoOp
    THEN UNCHANGED poolVars
    ELSE /\ worker' = [w \in WorkerIds |->
                IF /\ w > poolStarts * PoolWorkerCount
                   /\ w <= (poolStarts + 1) * PoolWorkerCount
                THEN [pc |-> "idle", task |-> NoTask, err |-> "none"]
                ELSE worker[w]]
         /\ poolStarts' = poolStarts + 1
         /\ poolRunning' = TRUE
         /\ UNCHANGED <<poolQuit, poolTasks>>

(***************************************************************************)
(* DeepWorker.Run: dw.pool.Run(), dw.wg.Add(1), go <dispatcher>.  Run and  *)
(* Shutdown are called by one controlling thread, so Run does not start    *)
(* while a Shutdown call is in progress.                                   *)
(***************************************************************************)
Run ==
    /\ runCalls + shutdownCalls < MaxLifecycleCalls
    /\ shutdown = "idle"
    /\ runCalls' = runCalls + 1
    /\ PoolRun
    /\ dispatcher' = [dispatcher EXCEPT ![runCalls + 1] =
                          [pc |-> "select", task |-> NoTask]]
    /\ UNCHANGED <<activeTasks, tasks, ctxDone, shutdown, shutdownCalls,
                   submitCalls, submitErr, llmCalls>>
    /\ UNCHANGED <<workerCount, sym, mu, client>>

(***************************************************************************)
(* The dispatcher goroutine of Run.                                        *)
(***************************************************************************)
\* case task, ok := <-dw.tasks, from the buffer of the channel.
DispatchReceive(d) ==
    /\ Alive
    /\ dispatcher[d].pc = "select"
    /\ tasks # <<>>
    /\ tasks' = Tail(tasks)
    /\ dispatcher' = [dispatcher EXCEPT ![d] = Received(Head(tasks))]
    /\ UNCHANGED <<activeTasks, ctxDone, llmCalls>>
    /\ UNCHANGED poolVars
    /\ UNCHANGED callVars
    /\ UNCHANGED <<workerCount, sym, mu, client>>

\* case <-dw.ctx.Done(): return.  Go picks among the ready cases of a select
\* at random, so this competes with DispatchReceive.
DispatchCancelled(d) ==
    /\ Alive
    /\ dispatcher[d].pc = "select"
    /\ ctxDone
    /\ dispatcher' = [dispatcher EXCEPT ![d] = [pc |-> "exited", task |-> NoTask]]
    /\ UNCHANGED <<activeTasks, tasks, ctxDone, llmCalls>>
    /\ UNCHANGED poolVars
    /\ UNCHANGED callVars
    /\ UNCHANGED <<workerCount, sym, mu, client>>

\* The select of GoWorkerPool.Submit: the send, the closed quit channel, or
\* the 100 ms timer, which can only win while the send cannot proceed.
DispatchSubmit(d) ==
    /\ Alive
    /\ dispatcher[d].pc = "submit"
    /\ \/ /\ PoolHasRoom
          /\ poolTasks' = Append(poolTasks, TaskCopy(dispatcher[d].task))
          /\ dispatcher' = [dispatcher EXCEPT ![d] = [pc |-> "select", task |-> NoTask]]
       \/ /\ poolQuit \/ ~PoolHasRoom
          /\ dispatcher' = [dispatcher EXCEPT ![d].pc = "requeue"]
          /\ UNCHANGED poolTasks
    /\ UNCHANGED <<poolRunning, poolQuit, worker, poolStarts>>
    /\ UNCHANGED <<activeTasks, tasks, ctxDone, llmCalls>>
    /\ UNCHANGED callVars
    /\ UNCHANGED <<workerCount, sym, mu, client>>

\* After a failed Submit: select { case dw.tasks <- task: ...
\* case <-time.After(3 * time.Second): dw.completeTask(task.SourcePath) }
DispatchRequeue(d) ==
    /\ Alive
    /\ dispatcher[d].pc = "requeue"
    /\ IF SendTask(dispatcher[d].task) # {}
       THEN /\ \E sent \in SendTask(dispatcher[d].task) :
                  /\ tasks' = sent[1]
                  /\ dispatcher' = [sent[2] EXCEPT ![d] = [pc |-> "select", task |-> NoTask]]
            /\ UNCHANGED activeTasks
       ELSE /\ activeTasks' = completeTask(activeTasks, dispatcher[d].task.SourcePath)
            /\ dispatcher' = [dispatcher EXCEPT ![d] = [pc |-> "select", task |-> NoTask]]
            /\ UNCHANGED tasks
    /\ UNCHANGED <<ctxDone, llmCalls>>
    /\ UNCHANGED poolVars
    /\ UNCHANGED callVars
    /\ UNCHANGED <<workerCount, sym, mu, client>>

(***************************************************************************)
(* The executors of the pool (GoWorkerPool.worker) running the closures    *)
(* the dispatcher submits: func() { dw.processTask(&taskCopy) }.           *)
(***************************************************************************)
\* case task, ok := <-wp.tasks: task() up to the call of dw.model.Generate.
WorkerTake(w) ==
    /\ Alive
    /\ worker[w].pc = "idle"
    /\ poolTasks # <<>>
    /\ poolTasks' = Tail(poolTasks)
    /\ worker' = [worker EXCEPT ![w] =
          [pc |-> "generate", task |-> Head(poolTasks), err |-> "none"]]
    /\ llmCalls' = [llmCalls EXCEPT ![Head(poolTasks).SourcePath] = @ + 1]
    /\ UNCHANGED <<poolRunning, poolQuit, poolStarts>>
    /\ UNCHANGED dwVars
    /\ UNCHANGED callVars
    /\ UNCHANGED <<workerCount, sym, mu, client>>

\* case <-wp.quit: return
WorkerQuit(w) ==
    /\ Alive
    /\ worker[w].pc = "idle"
    /\ poolQuit
    /\ worker' = [worker EXCEPT ![w] = [pc |-> "exited", task |-> NoTask, err |-> "none"]]
    /\ UNCHANGED <<poolRunning, poolQuit, poolTasks, poolStarts, llmCalls>>
    /\ UNCHANGED dwVars
    /\ UNCHANGED callVars
    /\ UNCHANGED <<workerCount, sym, mu, client>>

\* dw.model.Generate returns: on an error completeTask and return, else the
\* test code is extracted and the coverage callback is called.
GenerateReturns(w, ok) ==
    /\ Alive
    /\ worker[w].pc = "generate"
    /\ IF AfterGenerate(ok) = "callback"
       THEN /\ worker' = [worker EXCEPT ![w].pc = "callback"]
            /\ UNCHANGED activeTasks
       ELSE /\ worker' = [worker EXCEPT ![w].pc = "return", ![w].err = "generate"]
            /\ activeTasks' = completeTask(activeTasks, worker[w].task.SourcePath)
    /\ UNCHANGED <<tasks, ctxDone, dispatcher, llmCalls>>
    /\ UNCHANGED <<poolRunning, poolQuit, poolTasks, poolStarts>>
    /\ UNCHANGED callVars
    /\ UNCHANGED <<workerCount, sym, mu, client>>

\* dw.callback returns (coverage, report, err): the rest of processTask.
CallbackReturns(w, ok, coverage) ==
    /\ Alive
    /\ worker[w].pc = "callback"
    /\ IF ~ok
       THEN /\ worker' = [worker EXCEPT ![w].pc = "return", ![w].err = "callback"]
            /\ activeTasks' = completeTask(activeTasks, worker[w].task.SourcePath)
            /\ UNCHANGED <<tasks, dispatcher>>
       ELSE LET updated == UpdateBest(worker[w].task, coverage)
                retried == [updated EXCEPT !.Iterations = @ + 1]
            IN  IF ShouldRetry(updated, coverage)
                THEN /\ worker' = [worker EXCEPT ![w].pc = "return", ![w].task = retried]
                     /\ \/ \E sent \in SendTask(retried) :
                              /\ tasks' = sent[1]
                              /\ dispatcher' = sent[2]
                              /\ UNCHANGED activeTasks
                        \/ /\ ~TasksHasRoom
                           /\ activeTasks' = completeTask(activeTasks, retried.SourcePath)
                           /\ UNCHANGED <<tasks, dispatcher>>
                ELSE /\ worker' = [worker EXCEPT ![w].pc = "return", ![w].task = updated]
                     /\ activeTasks' = completeTask(activeTasks, updated.SourcePath)
                     /\ UNCHANGED <<tasks, dispatcher>>
    /\ UNCHANGED <<ctxDone, llmCalls>>
    /\ UNCHANGED <<poolRunning, poolQuit, poolTasks, poolStarts>>
    /\ UNCHANGED callVars
    /\ UNCHANGED <<workerCount, sym, mu, client>>

\* processTask and the closure return; the executor goes back to its select.
ClosureReturns(w) ==
    /\ Alive
    /\ worker[w].pc = "return"
    /\ worker' = [worker EXCEPT ![w] = [pc |-> "idle", task |-> NoTask, err |-> "none"]]
    /\ UNCHANGED <<poolRunning, poolQuit, poolTasks, poolStarts, llmCalls>>
    /\ UNCHANGED dwVars
    /\ UNCHANGED callVars
    /\ UNCHANGED <<workerCount, sym, mu, client>>

(***************************************************************************)
(* DeepWorker.Shutdown: dw.cancel(); dw.wg.Wait(); dw.pool.Shutdown().     *)
(***************************************************************************)
ShutdownCancel ==
    /\ runCalls + shutdownCalls < MaxLifecycleCalls
    /\ shutdown = "idle"
    /\ shutdownCalls' = shutdownCalls + 1
    /\ ctxDone' = TRUE
    /\ shutdown' = "wg.Wait"
    /\ UNCHANGED <<activeTasks, tasks, dispatcher, runCalls, submitCalls,
                   submitErr, llmCalls>>
    /\ UNCHANGED poolVars
    /\ UNCHANGED <<workerCount, sym, mu, client>>

\* Mutant: the running flag is not looked at.
ShutdownSignals_always == TRUE

\* GoWorkerPool.Shutdown: if !wp.running { return }
ShutdownSignals == poolRunning

\* GoWorkerPool.Shutdown up to its wait: it returns at once on a pool that is
\* not running, else clears running and closes quit.  Closing quit a second
\* time panics.
PoolShutdown ==
    /\ IF ~ShutdownSignals
       THEN /\ shutdown' = "idle"
            /\ UNCHANGED <<poolRunning, poolQuit>>
       ELSE /\ poolRunning' = FALSE
            /\ poolQuit' = TRUE
            /\ shutdown' = IF poolQuit THEN "panic" ELSE "pool.wait"
    /\ UNCHANGED <<poolTasks, worker, poolStarts>>

\* wg.Wait returns once every dispatcher has exited; then dw.pool.Shutdown().
ShutdownPool ==
    /\ shutdown = "wg.Wait"
    /\ \A d \in DispatcherIds : dispatcher[d].pc \in {"unstarted", "exited"}
    /\ PoolShutdown
    /\ UNCHANGED dwVars
    /\ UNCHANGED <<runCalls, shutdownCalls, submitCalls, submitErr, llmCalls>>
    /\ UNCHANGED <<workerCount, sym, mu, client>>

\* select { case <-done: ... case <-time.After(5 * time.Second): ... }
ShutdownReturns ==
    /\ shutdown = "pool.wait"
    /\ shutdown' = "idle"
    /\ UNCHANGED <<runCalls, shutdownCalls, submitCalls, submitErr, llmCalls>>
    /\ UNCHANGED dwVars
    /\ UNCHANGED poolVars
    /\ UNCHANGED <<workerCount, sym, mu, client>>

Next ==
    \/ \E p \in Paths : SubmitTask(p)
    \/ Run
    \/ \E d \in DispatcherIds : DispatchReceive(d)
    \/ \E d \in DispatcherIds : DispatchCancelled(d)
    \/ \E d \in DispatcherIds : DispatchSubmit(d)
    \/ \E d \in DispatcherIds : DispatchRequeue(d)
    \/ \E w \in WorkerIds : WorkerTake(w)
    \/ \E w \in WorkerIds : WorkerQuit(w)
    \/ \E w \in WorkerIds, ok \in BOOLEAN : GenerateReturns(w, ok)
    \/ \E w \in WorkerIds, ok \in BOOLEAN, c \in Coverages : CallbackReturns(w, ok, c)
    \/ \E w \in WorkerIds : ClosureReturns(w)
    \/ ShutdownCancel
    \/ ShutdownPool
    \/ ShutdownReturns

Spec == Init /\ [][Next]_vars

ConfigSpec == ConfigInit /\ [][Next]_vars

(***************************************************************************)
(* Fair scheduling: every dispatcher and every executor that can take a    *)
(* step eventually takes one; in particular every call of the model and of *)
(* the coverage callback returns.  Clients are under no obligation.        *)
(***************************************************************************)
DispatcherStep(d) ==
    \/ DispatchReceive(d)
    \/ DispatchCancelled(d)
    \/ DispatchSubmit(d)
    \/ DispatchRequeue(d)

WorkerStep(w) ==
    \/ WorkerTake(w)
    \/ WorkerQuit(w)
    \/ \E ok \in BOOLEAN : GenerateReturns(w, ok)
    \/ \E ok \in BOOLEAN, c \in Coverages : CallbackReturns(w, ok, c)
    \/ ClosureReturns(w)

FairSpec ==
    /\ Spec
    /\ \A d \in DispatcherIds : WF_vars(DispatcherStep(d))
    /\ \A w \in WorkerIds : WF_vars(WorkerStep(w))

(***************************************************************************)
(* The worker pool on its own (worker/worker.go): clients call Run, Submit *)
(* and Shutdown of a GoWorkerPool directly and submit opaque closures,     *)
(* which return, panic or never return.  Calls are made one at a time,     *)
(* except that Submit may also be called while a Shutdown call waits for   *)
(* the executors.  A closure is known by the number of the Submit call     *)
(* that passed it.  Here runCalls, shutdownCalls, submitCalls and          *)
(* submitErr count and report the calls of the pool, and shutdown is the   *)
(* position of the thread inside GoWorkerPool.Shutdown.                    *)
(***************************************************************************)
PoolInit ==
    /\ workerCount \in PoolWorkerCounts
    /\ shutdown = "idle"
    /\ NewState
    /\ sym = NoSym

\* The closure the next Submit call passes.
NewClosure == [id |-> submitCalls + 1]

\* Mutant: Submit does not look at the running flag.
SubmitCheck_noRunningCheck(isNil) == IF isNil THEN "nil task" ELSE "none"

\* Submit: if task == nil { return error }; if !wp.running { return error }
SubmitCheck(isNil) ==
    IF isNil THEN "nil task"
    ELSE IF ~poolRunning THEN "not running"
    ELSE "none"

\* GoWorkerPool.Submit(task): the checks, then the select: the send, the
\* closed quit channel, or the 100 ms timer, which wins only while neither
\* of the other two can proceed.
Submit(isNil) ==
    /\ Alive
    /\ submitCalls < MaxSubmitCalls
    /\ submitCalls' = submitCalls + 1
    /\ IF SubmitCheck(isNil) # "none"
       THEN /\ submitErr' = SubmitCheck(isNil)
            /\ UNCHANGED poolTasks
       ELSE \/ /\ PoolHasRoom
               /\ poolTasks' = Append(poolTasks, NewClosure)
               /\ submitErr' = "nil"
            \/ /\ poolQuit
               /\ submitErr' = "shutting down"
               /\ UNCHANGED poolTasks
            \/ /\ ~PoolHasRoom /\ ~poolQuit
               /\ submitErr' = "queue full"
               /\ UNCHANGED poolTasks
    /\ UNCHANGED <<poolRunning, poolQuit, worker, poolStarts>>
    /\ UNCHANGED <<shutdown, runCalls, shutdownCalls, llmCalls, workerCount, sym, mu, client>>
    /\ UNCHANGED dwVars

\* A client calls GoWorkerPool.Run.
GoWorkerPoolRun ==
    /\ runCalls + shutdownCalls < MaxPoolCalls
    /\ shutdown = "idle"
    /\ runCalls' = runCalls + 1
    /\ PoolRun
    /\ UNCHANGED <<shutdown, shutdownCalls, submitCalls, submitErr, llmCalls,
                   workerCount, sym, mu, client>>
    /\ UNCHANGED dwVars

\* A client calls GoWorkerPool.Shutdown; the call goes on in ShutdownReturns.
GoWorkerPoolShutdown ==
    /\ runCalls + shutdownCalls < MaxPoolCalls
    /\ shutdown = "idle"
    /\ shutdownCalls' = shutdownCalls + 1
    /\ PoolShutdown
    /\ UNCHANGED <<runCalls, submitCalls, submitErr, llmCalls, workerCount, sym, mu, client>>
    /\ UNCHANGED dwVars

\* Mutant: a panic of a closure ends the executor.
AfterPanic_dies == "exited"

\* worker: the recover deferred around task() (worker.go:65-73) keeps the
\* executor in its loop.
AfterPanic == "idle"

\* case task, ok := <-wp.tasks: the executor invokes the closure.
WorkerInvoke(w) ==
    /\ Alive
    /\ worker[w].pc = "idle"
    /\ poolTasks # <<>>
    /\ poolTasks' = Tail(poolTasks)
    /\ worker' = [worker EXCEPT ![w].pc = "task", ![w].task = Head(poolTasks)]
    /\ UNCHANGED <<poolRunning, poolQuit, poolStarts, llmCalls, workerCount, sym, mu, client>>
    /\ UNCHANGED dwVars
    /\ UNCHANGED callVars

\* task() returns.  err keeps how the executor's last closure ended.
TaskReturns(w) ==
    /\ Alive
    /\ worker[w].pc = "task"
    /\ worker' = [worker EXCEPT ![w] = [pc |-> "idle", task |-> NoTask, err |-> "none"]]
    /\ UNCHANGED <<poolRunning, poolQuit, poolTasks, poolStarts, llmCalls, workerCount, sym, mu, client>>
    /\ UNCHANGED dwVars
    /\ UNCHANGED callVars

\* task() panics; the panic is recovered and logged.
TaskPanics(w) ==
    /\ Alive
    /\ worker[w].pc = "task"
    /\ worker' = [worker EXCEPT ![w] = [pc |-> AfterPanic, task |-> NoTask, err |-> "panic"]]
    /\ UNCHANGED <<poolRunning, poolQuit, poolTasks, poolStarts, llmCalls, workerCount, sym, mu, client>>
    /\ UNCHANGED dwVars
    /\ UNCHANGED callVars

PoolNext ==
    \/ GoWorkerPoolRun
    \/ \E isNil \in BOOLEAN : Submit(isNil)
    \/ GoWorkerPoolShutdown
    \/ ShutdownReturns
    \/ \E w \in WorkerIds : WorkerInvoke(w)
    \/ \E w \in WorkerIds : WorkerQuit(w)
    \/ \E w \in WorkerIds : TaskReturns(w)
    \/ \E w \in WorkerIds : TaskPanics(w)

PoolSpec == PoolInit /\ [][PoolNext]_vars

PoolTypeOK ==
    /\ Len(poolTasks) <= PoolCap
    /\ poolStarts * PoolWorkerCount <= Cardinality(WorkerIds)
    /\ \A w \in WorkerIds : worker[w].pc \in {"unstarted", "idle", "task", "exited"}
    /\ \A w \in WorkerIds :
          worker[w].pc # "unstarted" <=> w <= poolStarts * PoolWorkerCount

\* What an executor does when its closure ends, one way or the other.
PoolWorkerStep(w) ==
    \/ WorkerInvoke(w)
    \/ WorkerQuit(w)
    \/ TaskReturns(w)
    \/ TaskPanics(w)

\* Every executor that can take a step eventually does, and every closure
\* returns or panics.
PoolFairSpec ==
    /\ PoolSpec
    /\ \A w \in WorkerIds : WF_vars(PoolWorkerStep(w))

\* Closures may never return: only the executors' own steps and the steps
\* of Shutdown are fair (the 5 s timer of Shutdown fires).
PoolStuckSpec ==
    /\ PoolSpec
    /\ WF_vars(ShutdownReturns)
    /\ \A w \in WorkerIds : WF_vars(WorkerInvoke(w) \/ WorkerQuit(w))

(***************************************************************************)
(* Runs from identical initial conditions with deterministic stubs: one    *)
(* client calls Run and then SubmitTask for the paths of SubmitSeq in      *)
(* order, at any time; Generate always returns a message and the coverage  *)
(* callback reports CoverageStub, a function of the path and the round.    *)
(* The dispatcher and the executors interleave freely.                     *)
(***************************************************************************)
SubmitSeq == <<"a.py", "b.go", "a.py">>

\* The coverage stub: 0.5 then 0.1 for a.py, 0.9 for b.go.
CoverageStub(sourcePath, iteration) ==
    IF sourcePath = "a.py"
    THEN (IF iteration = 0 THEN 5 ELSE 1)
    ELSE 9

DetRun ==
    /\ runCalls = 0
    /\ Run

DetSubmitTask ==
    /\ runCalls = 1
    /\ submitCalls < Len(SubmitSeq)
    /\ SubmitTask(SubmitSeq[submitCalls + 1])

DetGenerateReturns(w) == GenerateReturns(w, TRUE)

DetCallbackReturns(w) ==
    CallbackReturns(w, TRUE,
        CoverageStub(worker[w].task.SourcePath, worker[w].task.Iterations))

DetNext ==
    \/ DetRun
    \/ DetSubmitTask
    \/ \E d \in DispatcherIds : DispatchReceive(d)
    \/ \E d \in DispatcherIds : DispatchSubmit(d)
    \/ \E d \in DispatcherIds : DispatchRequeue(d)
    \/ \E w \in WorkerIds : WorkerTake(w)
    \/ \E w \in WorkerIds : DetGenerateReturns(w)
    \/ \E w \in WorkerIds : DetCallbackReturns(w)
    \/ \E w \in WorkerIds : ClosureReturns(w)

DetSpec == Init /\ [][DetNext]_vars

(***************************************************************************)
(* Where a task for a source path is.                                      *)
(***************************************************************************)
\* Entries for p in the task queue.
InQueue(p) == Cardinality({i \in 1..Len(tasks) : tasks[i].SourcePath = p})

\* Dispatchers holding a dequeued task for p (handing it to the pool or
\* putting it back).
InDispatcher(p) ==
    Cardinality({d \in DispatcherIds :
        dispatcher[d].pc \in {"submit", "requeue"} /\ dispatcher[d].task.SourcePath = p})

\* Processing closures for p waiting in the pool's queue.
InPoolQueue(p) ==
    Cardinality({i \in 1..Len(poolTasks) : poolTasks[i].SourcePath = p})

\* Processing closures for p an executor is running, up to their return.
Executing(p) ==
    Cardinality({w \in WorkerIds :
        worker[w].pc \in {"generate", "callback", "return"} /\ worker[w].task.SourcePath = p})

\* Processing closures for p that have not yet re-enqueued or completed it.
Processing(p) ==
    Cardinality({w \in WorkerIds :
        worker[w].pc \in {"generate", "callback"} /\ worker[w].task.SourcePath = p})

\* The carriers of a task for p that can still act on it.
LiveCarriers(p) == InQueue(p) + InDispatcher(p) + InPoolQueue(p) + Processing(p)

(***************************************************************************)
(* C1 as stated: for every source path, queue entries, closures waiting in *)
(* the pool and closures being executed number at most one in all.         *)
(***************************************************************************)
C1_AtMostOneCarrier ==
    \A p \in Paths : InQueue(p) + InPoolQueue(p) + Executing(p) <= 1

(***************************************************************************)
(* C1 amended: for every source path at most one carrier exists, counting  *)
(* queue entries, tasks a dispatcher holds, closures waiting in the pool   *)
(* and closures being executed that have not yet re-enqueued or completed  *)
(* the task; in particular the path is in the task queue at most once.     *)
(***************************************************************************)
C1_AtMostOneLiveCarrier ==
    \A p \in Paths : LiveCarriers(p) <= 1 /\ InQueue(p) <= 1

\* A closure has re-enqueued its task and has not returned yet.
C1_Witness ==
    \E p \in Paths, w \in WorkerIds :
        /\ worker[w].pc = "return"
        /\ worker[w].task.SourcePath = p
        /\ InQueue(p) = 1

(***************************************************************************)
(* C2: SubmitTask(p) while p is in the task table returns the duplicate    *)
(* error and leaves table and queue unchanged; hence an accepted           *)
(* SubmitTask(p) finds p absent: between two accepted calls for p, p has   *)
(* been completed.                                                         *)
(***************************************************************************)
C2_DuplicateRejected ==
    [][\A p \in Paths :
          SubmitTask(p) =>
             /\ p \in DOMAIN activeTasks =>
                   /\ submitErr' = "duplicate"
                   /\ activeTasks' = activeTasks
                   /\ tasks' = tasks
             /\ submitErr' = "nil" =>
                   /\ p \notin DOMAIN activeTasks
                   /\ p \in DOMAIN activeTasks']_vars

\* A submission has been rejected as a duplicate.
C2_Witness == submitErr = "duplicate" /\ activeTasks # <<>> /\ tasks # <<>>

C4_EveryTaskCompletes ==
    [](shutdownCalls = 0) =>
        /\ \A p \in Paths :
              [](runCalls > 0 /\ p \in DOMAIN activeTasks
                    => <>(p \notin DOMAIN activeTasks))
        /\ <>(runCalls > 0) => <>[](Cardinality(DOMAIN activeTasks) = 0)

\* Run has been called, no Shutdown, a task went through a retry and the
\* table is empty again.
C4_Witness ==
    /\ runCalls > 0
    /\ shutdownCalls = 0
    /\ \E p \in Paths : llmCalls[p] = MaxIterations + 1
    /\ activeTasks = <<>>
    /\ submitCalls = MaxSubmitCalls

(***************************************************************************)
(* The task records there are, and those of the live carriers of a path.   *)
(***************************************************************************)
AllRecords ==
    {activeTasks[p] : p \in DOMAIN activeTasks}
    \cup {tasks[i] : i \in 1..Len(tasks)}
    \cup {dispatcher[d].task : d \in {e \in DispatcherIds : dispatcher[e].pc \in {"submit", "requeue"}}}
    \cup {poolTasks[i] : i \in 1..Len(poolTasks)}
    \cup {worker[w].task : w \in {v \in WorkerIds : worker[v].pc \in {"generate", "callback", "return"}}}

LiveRecords(p) ==
    {r \in {tasks[i] : i \in 1..Len(tasks)}
        \cup {dispatcher[d].task : d \in {e \in DispatcherIds : dispatcher[e].pc \in {"submit", "requeue"}}}
        \cup {poolTasks[i] : i \in 1..Len(poolTasks)}
        \cup {worker[w].task : w \in {v \in WorkerIds : worker[v].pc \in {"generate", "callback"}}} :
     r.SourcePath = p}

\* A processing round of executor w ends by completing its task.
RoundCompletes(w) ==
    /\ worker[w].pc = "callback"
    /\ worker'[w].pc = "return"
    /\ worker[w].task.SourcePath \notin DOMAIN activeTasks'

(***************************************************************************)
(* C5: at most maxIterations + 1 Generate calls are made for an accepted   *)
(* task, and exactly that many have been made when the task is completed   *)
(* by a round without error, every round so far having reported a coverage *)
(* below the threshold, and the task queue not being full.                 *)
(***************************************************************************)
C5_GenerateCalls ==
    /\ [](\A p \in Paths : llmCalls[p] <= MaxIterations + 1)
    /\ [][\A w \in WorkerIds, c \in Coverages :
            ( /\ CallbackReturns(w, TRUE, c)
              /\ RoundCompletes(w)
              /\ worker'[w].task.BestCoverage < CoverageThreshold
              /\ Len(tasks) < TasksCap )
            => llmCalls[worker[w].task.SourcePath] = MaxIterations + 1]_vars

\* A task has been completed after its last retry, never reaching the threshold.
C5_Witness ==
    \E w \in WorkerIds :
        /\ worker[w].pc = "return"
        /\ worker[w].err = "none"
        /\ worker[w].task.Iterations = MaxIterations
        /\ worker[w].task.BestCoverage < CoverageThreshold
        /\ worker[w].task.SourcePath \notin DOMAIN activeTasks
        /\ llmCalls[worker[w].task.SourcePath] = MaxIterations + 1
        /\ Len(tasks) < TasksCap

(***************************************************************************)
(* C6: every task record (table, queue, dispatcher, pool, executor) has    *)
(* 0 <= Iterations <= maxIterations, and while a path stays in the table   *)
(* the iterations of its task never decrease.                              *)
(***************************************************************************)
C6_IterationsBounded ==
    /\ [](\A r \in AllRecords : 0 <= r.Iterations /\ r.Iterations <= MaxIterations)
    /\ [][\A p \in Paths :
            (p \in DOMAIN activeTasks /\ p \in DOMAIN activeTasks') =>
               \A r \in LiveRecords(p) : \A r2 \in LiveRecords(p)' :
                   r2.Iterations >= r.Iterations]_vars

\* A task waits in the queue for its last retry.
C6_Witness ==
    \E i \in 1..Len(tasks) :
        /\ tasks[i].Iterations = MaxIterations
        /\ MaxIterations > 0
        /\ tasks[i].SourcePath \in DOMAIN activeTasks

(***************************************************************************)
(* C7: bestCoverage of a task starts at 0, never decreases while the path  *)
(* stays in the table, stays within [0,1], and after a round that reported *)
(* coverage c it is the maximum of its previous value and c.               *)
(***************************************************************************)
C7_BestCoverageMonotone ==
    /\ [](\A r \in AllRecords : 0 <= r.BestCoverage /\ r.BestCoverage <= 10)
    /\ [][/\ \A p \in Paths :
               /\ (p \in DOMAIN activeTasks /\ p \in DOMAIN activeTasks') =>
                     \A r \in LiveRecords(p) : \A r2 \in LiveRecords(p)' :
                         r2.BestCoverage >= r.BestCoverage
               /\ (SubmitTask(p) /\ submitErr' = "nil") =>
                     \A r2 \in LiveRecords(p)' : r2.BestCoverage = 0
          /\ \A w \in WorkerIds, c \in Coverages :
               CallbackReturns(w, TRUE, c) =>
                  /\ worker'[w].task.BestCoverage >= worker[w].task.BestCoverage
                  /\ worker'[w].task.BestCoverage >= c
                  /\ worker'[w].task.BestCoverage \in {worker[w].task.BestCoverage, c}]_vars

\* A task waits for a retry with the coverage of its first round recorded.
C7_Witness ==
    \E i \in 1..Len(tasks) :
        /\ tasks[i].Iterations > 0
        /\ tasks[i].BestCoverage = 5

(***************************************************************************)
(* C8: when Generate fails the callback is not invoked and the task is     *)
(* removed without retry; when the callback fails the task is removed      *)
(* without retry; nothing of any other task changes in that step.          *)
(***************************************************************************)
C8_FailureEndsOnlyThatTask ==
    [][\A w \in WorkerIds :
          ( \/ GenerateReturns(w, FALSE)
            \/ \E c \in Coverages : CallbackReturns(w, FALSE, c) )
          => LET p == worker[w].task.SourcePath
             IN  /\ worker'[w].pc = "return"
                 /\ worker'[w].task = worker[w].task
                 /\ p \notin DOMAIN activeTasks'
                 /\ LiveCarriers(p)' = 0
                 /\ tasks' = tasks
                 /\ poolTasks' = poolTasks
                 /\ dispatcher' = dispatcher
                 /\ llmCalls' = llmCalls
                 /\ \A q \in Paths \ {p} :
                       /\ (q \in DOMAIN activeTasks) <=> (q \in DOMAIN activeTasks')
                       /\ q \in DOMAIN activeTasks => activeTasks'[q] = activeTasks[q]
                 /\ \A v \in WorkerIds \ {w} : worker'[v] = worker[v]]_vars

\* Generate has failed for one task while another task is in the table.
C8_Witness ==
    \E w \in WorkerIds :
        /\ worker[w].pc = "return"
        /\ worker[w].err = "generate"
        /\ worker[w].task.SourcePath \notin DOMAIN activeTasks
        /\ DOMAIN activeTasks # {}

(***************************************************************************)
(* C9: a round that reports a coverage at or above the threshold removes   *)
(* the task and does not re-enqueue it, no Generate call is made for a     *)
(* path that is not in the table, and a first round at or above the        *)
(* threshold (0.9 against 0.8) leaves the task with exactly one call.      *)
(***************************************************************************)
C9_ThresholdReachedCompletes ==
    [][/\ \A w \in WorkerIds, c \in Coverages :
            (CallbackReturns(w, TRUE, c) /\ c >= CoverageThreshold) =>
               LET p == worker[w].task.SourcePath
               IN  /\ p \notin DOMAIN activeTasks'
                   /\ tasks' = tasks
                   /\ LiveCarriers(p)' = 0
                   /\ worker[w].task.Iterations = 0 => llmCalls'[p] = 1
       /\ \A p \in Paths :
            (p \notin DOMAIN activeTasks /\ p \notin DOMAIN activeTasks')
               => llmCalls'[p] = llmCalls[p]]_vars

\* The first round of a task has reported 0.9 and the task is gone.
C9_Witness ==
    \E w \in WorkerIds :
        /\ worker[w].pc = "return"
        /\ worker[w].err = "none"
        /\ worker[w].task.Iterations = 0
        /\ worker[w].task.BestCoverage = 9
        /\ CoverageThreshold = 8
        /\ llmCalls[worker[w].task.SourcePath] = 1
        /\ LiveCarriers(worker[w].task.SourcePath) = 0
        /\ worker[w].task.SourcePath \notin DOMAIN activeTasks

(***************************************************************************)
(* C10: SubmitTask for a path not in the table, when the task queue is     *)
(* full, returns the queue-full error in one step, leaves table and queue  *)
(* as they were and the path out of the table; the duplicate error is      *)
(* returned only for a path that is in the table.                          *)
(***************************************************************************)
C10_QueueFullRetainsNothing ==
    [][\A p \in Paths :
          SubmitTask(p) =>
             /\ (p \notin DOMAIN activeTasks /\ Len(tasks) >= TasksCap) =>
                   submitErr' = "queue full"
             /\ submitErr' = "queue full" =>
                   /\ activeTasks' = activeTasks
                   /\ tasks' = tasks
                   /\ p \notin DOMAIN activeTasks'
             /\ submitErr' = "duplicate" => p \in DOMAIN activeTasks]_vars

\* A submission has been refused by the full queue.
C10_Witness ==
    /\ submitErr = "queue full"
    /\ Len(tasks) = TasksCap
    /\ TasksCap > 0

(***************************************************************************)
(* C11: once a Shutdown call of the scheduler has returned, every          *)
(* SubmitTask call fails and adds nothing to the task table or the task    *)
(* queue.                                                                  *)
(***************************************************************************)
C11_SubmitAfterShutdownFails ==
    [][\A p \in Paths :
          (SubmitTask(p) /\ shutdownCalls > 0 /\ shutdown = "idle") =>
             /\ submitErr' # "nil"
             /\ activeTasks' = activeTasks
             /\ tasks' = tasks]_vars

(***************************************************************************)
(* The stage of the pool's lifecycle: 0 New, 1 Running, 2 ShuttingDown     *)
(* (Shutdown has signalled and waits), 3 Stopped.                          *)
(***************************************************************************)
Lifecycle ==
    IF poolRunning THEN 1
    ELSE IF ~poolQuit THEN 0
    ELSE IF shutdown = "pool.wait" THEN 2
    ELSE 3

\* A Shutdown call that stopped the pool (it found the pool running and closed
\* quit) has returned.
ShutdownReturned == poolQuit /\ shutdown = "idle"

(***************************************************************************)
(* C12: once a Shutdown call that stopped the pool has returned, every     *)
(* Submit call returns an error and enqueues nothing, whatever calls are   *)
(* made before or after it; and the lifecycle of the pool never moves      *)
(* backwards, so a pool that has been shut down is never running again.    *)
(***************************************************************************)
C12_StoppedPoolStaysStopped ==
    /\ [][\A isNil \in BOOLEAN :
            (Submit(isNil) /\ ShutdownReturned) =>
               /\ submitErr' # "nil"
               /\ poolTasks' = poolTasks]_vars
    /\ [][Lifecycle' >= Lifecycle]_vars

Started == {w \in WorkerIds : worker[w].pc # "unstarted"}

\* The executors that are in their loop.
LiveExecutors == {w \in WorkerIds : worker[w].pc \in {"idle", "task"}}

(***************************************************************************)
(* C14: a Run call on a running pool starts no executor and changes        *)
(* nothing of the pool; hence after any number of consecutive Run calls    *)
(* exactly max(1, configured count) executors have been started.           *)
(***************************************************************************)
C14_RunIdempotent ==
    /\ [][(GoWorkerPoolRun /\ poolRunning) =>
            /\ poolVars' = poolVars
            /\ Started' = Started]_vars
    /\ []((runCalls > 0 /\ shutdownCalls = 0) =>
            Cardinality(Started) = IF workerCount >= 1 THEN workerCount ELSE 1)

\* Two consecutive Run calls on a pool configured with a non-positive count.
C14_Witness ==
    /\ runCalls >= 2
    /\ shutdownCalls = 0
    /\ workerCount <= 0
    /\ Cardinality(Started) = 1

\* The closures clients submit.
ClosureIds == 1..MaxSubmitCalls

\* Closure i waits in the pool's queue.
Queued(i) == \E k \in 1..Len(poolTasks) : poolTasks[k].id = i

\* Closure i is being invoked by an executor.
Invoked(i) == \E w \in WorkerIds : worker[w].pc = "task" /\ worker[w].task.id = i

(***************************************************************************)
(* C15: when a closure panics inside executor w, w stays in its loop: the  *)
(* set of live executors, the other executors and the queue are unchanged; *)
(* and, every closure returning or panicking and Shutdown never being      *)
(* called, every closure in the queue is eventually invoked, whatever      *)
(* closures have panicked before.                                          *)
(***************************************************************************)
C15_PanicIsolation ==
    /\ [][\A w \in WorkerIds :
            TaskPanics(w) =>
               /\ worker'[w].pc = "idle"
               /\ LiveExecutors' = LiveExecutors
               /\ \A v \in WorkerIds \ {w} : worker'[v] = worker[v]
               /\ poolTasks' = poolTasks
               /\ poolRunning' = poolRunning]_vars
    /\ [](shutdownCalls = 0) =>
          \A i \in ClosureIds : [](Queued(i) => <>Invoked(i))

\* An executor whose last closure panicked is invoking a later closure.
C15_Witness ==
    \E w \in WorkerIds :
        /\ worker[w].pc = "task"
        /\ worker[w].err = "panic"
        /\ shutdownCalls = 0

(***************************************************************************)
(* C16: a Shutdown call on a pool that is not running (never started, or   *)
(* already shut down) returns at once, does not close quit again and       *)
(* leaves the pool as it was; so the second of two consecutive Shutdown    *)
(* calls changes nothing.                                                  *)
(***************************************************************************)
C16_ShutdownIdempotent ==
    [][(GoWorkerPoolShutdown /\ ~poolRunning) =>
          /\ poolVars' = poolVars
          /\ shutdown' = "idle"]_vars

\* A pool that was run and shut down has been shut down once more.
C16_Witness ==
    /\ runCalls = 1
    /\ shutdownCalls >= 2
    /\ poolQuit
    /\ ~poolRunning
    /\ shutdown = "idle"

(***************************************************************************)
(* C17: every Shutdown call of the pool eventually returns, also when an   *)
(* executor is stuck in a closure that never returns (the timer of         *)
(* Shutdown fires); and once quit is closed every executor that is waiting *)
(* for a closure eventually exits or is inside a closure.                  *)
(***************************************************************************)
C17_ShutdownTerminates ==
    /\ [](shutdown # "idle" => <>(shutdown = "idle"))
    /\ \A w \in WorkerIds :
          []((poolQuit /\ worker[w].pc = "idle")
                => <>(worker[w].pc \in {"task", "exited"}))

\* GetTaskStatus: task, exists := dw.activeTasks[sourcePath]
GetTaskStatus(sourcePath) ==
    IF sourcePath \in DOMAIN activeTasks
    THEN [task |-> activeTasks[sourcePath], exists |-> TRUE]
    ELSE [task |-> NoTask, exists |-> FALSE]

(***************************************************************************)
(* C18: after a processing round for p has measured coverage c and         *)
(* re-enqueued the task, GetTaskStatus(p) returns a record whose           *)
(* iterations has been incremented and whose bestCoverage is at least c:   *)
(* the record of the table is the record the round has updated.            *)
(***************************************************************************)
C18_StatusFollowsProcessing ==
    [][\A w \in WorkerIds, c \in Coverages :
          (CallbackReturns(w, TRUE, c) /\ tasks' # tasks) =>
             LET p == worker[w].task.SourcePath
             IN  /\ GetTaskStatus(p)'.exists
                 /\ GetTaskStatus(p)'.task.Iterations = worker[w].task.Iterations + 1
                 /\ GetTaskStatus(p)'.task.BestCoverage >= c
                 /\ GetTaskStatus(p)'.task = worker'[w].task]_vars

(***************************************************************************)
(* The history the stubs determine for a task, computed without the        *)
(* scheduler: the task is processed in rounds 0, 1, ... up to the first    *)
(* round whose coverage reaches the threshold, at most maxIterations + 1.  *)
(***************************************************************************)
\* The last round of a task for p.
LastRound(p) ==
    CHOOSE i \in 0..MaxIterations :
        /\ CoverageStub(p, i) >= CoverageThreshold \/ i = MaxIterations
        /\ \A j \in 0..(i - 1) : CoverageStub(p, j) < CoverageThreshold

\* The best coverage of the first n rounds.
StubBest(p, n) ==
    CHOOSE c \in {0} \cup {CoverageStub(p, j) : j \in 0..(n - 1)} :
        \A j \in 0..(n - 1) : CoverageStub(p, j) <= c

\* The record of the task when it enters round i, and when it is completed.
ReferenceRecord(p, i) ==
    [SourcePath |-> p, Iterations |-> i, BestCoverage |-> StubBest(p, i)]

FinalRecord(p) ==
    [SourcePath |-> p, Iterations |-> LastRound(p),
     BestCoverage |-> StubBest(p, LastRound(p) + 1)]

(***************************************************************************)
(* C19 as stated: every interleaving yields the same history for every     *)
(* task, hence the history of the run in which the client makes each call  *)
(* when the scheduler is idle: every SubmitTask call is accepted, and      *)
(* every task leaves the table at the end of its last round, with the      *)
(* number of rounds and the record the stubs determine.                    *)
(***************************************************************************)
C19_SameHistoryInEveryInterleaving ==
    /\ [][DetSubmitTask => submitErr' = "nil"]_vars
    /\ [][\A p \in Paths :
            (p \in DOMAIN activeTasks /\ p \notin DOMAIN activeTasks') =>
               /\ llmCalls[p] = LastRound(p) + 1
               /\ \E w \in WorkerIds :
                     /\ worker'[w].pc = "return"
                     /\ worker'[w].task = FinalRecord(p)]_vars

(***************************************************************************)
(* C19 amended: in every interleaving the record a task carries into round *)
(* i is the one the stubs determine, and a task that a round completes     *)
(* while the task queue has room has had the number of rounds and has the  *)
(* final record the stubs determine.                                       *)
(***************************************************************************)
C19_HistoryDeterminedUnlessQueueFull ==
    /\ [](\A p \in Paths : \A r \in LiveRecords(p) :
             r = ReferenceRecord(p, r.Iterations))
    /\ [][\A w \in WorkerIds :
            (DetCallbackReturns(w) /\ RoundCompletes(w) /\ TasksHasRoom) =>
               LET p == worker[w].task.SourcePath
               IN  /\ llmCalls[p] = LastRound(p) + 1
                   /\ worker'[w].task = FinalRecord(p)]_vars

\* The task for a.py has been completed by its second round (0.5, then 0.1)
\* after all calls were made.
C19_Witness ==
    \E w \in WorkerIds :
        /\ worker[w].pc = "return"
        /\ worker[w].task = FinalRecord("a.py")
        /\ worker[w].task.Iterations = 1
        /\ worker[w].task.BestCoverage = 5
        /\ llmCalls["a.py"] = 2
        /\ "a.py" \notin DOMAIN activeTasks
        /\ submitCalls = Len(SubmitSeq)

\* No task is in the table, in the queue or in the hands of a dispatcher or
\* of the pool.
IdleScheduler ==
    /\ activeTasks = <<>>
    /\ tasks = <<>>
    /\ poolTasks = <<>>
    /\ \A d \in DispatcherIds : dispatcher[d].pc \notin {"submit", "requeue"}
    /\ \A w \in WorkerIds : worker[w].pc \notin {"generate", "callback", "return"}

(***************************************************************************)
(* C20: a scheduler configured with a worker count of one or less behaves  *)
(* as one configured with one worker: its construction succeeds, its pool  *)
(* has one executor once it runs, and a SubmitTask call for a new path on  *)
(* the idle scheduler is accepted into the task queue.                     *)
(***************************************************************************)
C20_NonPositiveCountActsAsOne ==
    /\ []((runCalls = 0 /\ shutdownCalls = 0) => shutdown = "idle")
    /\ []((runCalls > 0 /\ shutdownCalls = 0) => Cardinality(Started) = 1)
    /\ [][\A p \in Paths :
            (SubmitTask(p) /\ IdleScheduler) =>
               /\ submitErr' = "nil"
               /\ p \in DOMAIN activeTasks'
               /\ InQueue(p)' = 1]_vars

(***************************************************************************)
(* The path minimizer (worker/symprompt_worker.go, MinimizePaths).  A path *)
(* is a sequence of tokens; a branching site is a pair <<kind, index>> of  *)
(* a token of a branch kind and its 0-based position in a path.  One       *)
(* action is one round of the selection loop.                              *)
(***************************************************************************)
\* branchKinds
BranchKinds ==
    {"if_statement", "for_statement", "while_statement", "switch_expression",
     "switch_statement", "try_statement", "catch_clause", "except_clause",
     "finally"}

\* The tokens of the input paths: two branch kinds and the two arm tokens the
\* enumerator puts after an if_statement.
Tokens == {"if_statement", "for_statement", "cond-then", "cond-else"}

\* The largest number of input paths.
MaxInputPaths == 3

\* The input paths: every path of at most two tokens.
PathLengths == 0..2
InputPaths == UNION {[1..n -> Tokens] : n \in PathLengths}

\* The input of scenario S5.
S5Paths ==
    << <<"if_statement", "cond-then", "x">>,
       <<"if_statement", "cond-else", "y">>,
       <<"if_statement", "cond-then", "z">> >>

\* The argument lists MinimizePaths is called with.
InputLists == UNION {[1..n -> InputPaths] : n \in 0..MaxInputPaths} \cup {S5Paths}

\* for i, kind := range path { if _, ok := branchKinds[kind]; ok { branch{kind, i} } }
PathSites(path) ==
    {<<path[i], i - 1>> : i \in {j \in 1..Len(path) : path[j] \in BranchKinds}}

\* branches / branchSet: the distinct sites of all paths.
Sites(paths) == UNION {PathSites(paths[k]) : k \in 1..Len(paths)}

\* newCover: the sites of path that are not covered yet.
NewCover(path, covered) == PathSites(path) \ covered

\* Mutant: the first unused path that adds a site is taken.
Better_first(n, maxCover) == n > 0 /\ maxCover = 0

\* Mutant: a later path with as many new sites replaces the earlier one.
Better_orEqual(n, maxCover) == n >= maxCover

\* if len(newCover) > maxCover
Better(n, maxCover) == n > maxCover

\* The scan for i, path := range paths of one round, from index i on, with
\* the best count and index so far; the index is 0 where the code has -1.
RECURSIVE Scan(_, _, _, _, _, _)
Scan(paths, used, covered, i, maxCover, maxIdx) ==
    IF i > Len(paths) THEN maxIdx
    ELSE IF i \in used THEN Scan(paths, used, covered, i + 1, maxCover, maxIdx)
    ELSE LET n == Cardinality(NewCover(paths[i], covered))
         IN  IF Better(n, maxCover)
             THEN Scan(paths, used, covered, i + 1, n, i)
             ELSE Scan(paths, used, covered, i + 1, maxCover, maxIdx)

\* Mutant: the loop stops after the first selection.
LoopContinues_once(m) == m.result = <<>> /\ m.branches # {}

\* for len(covered) < len(branches)
LoopContinues(m) == Cardinality(m.covered) < Cardinality(m.branches)

\* Mutant: the sites of the selected path are not recorded.
Fold_forget(covered, maxNew) == covered

\* for b := range maxNew { covered[b] = struct{}{} }
Fold(covered, maxNew) == covered \cup maxNew

\* The locals of MinimizePaths after the first loop (lines 295-311).
MinimizeCall(paths) ==
    [op |-> "MinimizePaths", pc |-> "loop", paths |-> paths,
     branches |-> Sites(paths), covered |-> {}, result |-> <<>>, used |-> {}]

MinInit ==
    /\ workerCount = WorkerCount
    /\ shutdown = "idle"
    /\ NewState
    /\ sym \in {MinimizeCall(paths) : paths \in InputLists}

\* One round of the loop: select the unused path with the most new sites (the
\* earliest on ties), or break when no path adds a site.
MinimizeRound ==
    /\ sym.op = "MinimizePaths"
    /\ sym.pc = "loop"
    /\ LoopContinues(sym)
    /\ LET maxIdx == Scan(sym.paths, sym.used, sym.covered, 1, 0, 0)
       IN  IF maxIdx = 0
           THEN sym' = [sym EXCEPT !.pc = "done"]
           ELSE sym' = [sym EXCEPT
                    !.result = Append(@, sym.paths[maxIdx]),
                    !.used = @ \cup {maxIdx},
                    !.covered = Fold(@, NewCover(sym.paths[maxIdx], sym.covered))]
    /\ UNCHANGED <<workerCount, dwVars, poolVars, callVars, llmCalls, mu, client>>

\* The loop ends: return result.
MinimizeReturns ==
    /\ sym.op = "MinimizePaths"
    /\ sym.pc = "loop"
    /\ ~LoopContinues(sym)
    /\ sym' = [sym EXCEPT !.pc = "done"]
    /\ UNCHANGED <<workerCount, dwVars, poolVars, callVars, llmCalls, mu, client>>

MinNext ==
    \/ MinimizeRound
    \/ MinimizeReturns

MinSpec == MinInit /\ [][MinNext]_vars

\* MinimizePaths has returned.
Minimized == sym.op = "MinimizePaths" /\ sym.pc = "done"

(***************************************************************************)
(* C21: when MinimizePaths has returned, the branching sites occurring in  *)
(* the returned paths are exactly the branching sites occurring in the     *)
(* input paths, and every returned path is one of the input paths.         *)
(***************************************************************************)
C21_MinimizeCoversEverySite ==
    Minimized =>
        /\ Sites(sym.result) = Sites(sym.paths)
        /\ \A k \in 1..Len(sym.result) :
              \E i \in 1..Len(sym.paths) : sym.result[k] = sym.paths[i]

\* Three paths were needed to cover the sites of the input.
C21_Witness ==
    /\ Minimized
    /\ Len(sym.result) = 3
    /\ Cardinality(Sites(sym.paths)) >= 3

\* The sites of the returned paths other than the k-th.
SitesWithout(k) ==
    UNION {PathSites(sym.result[j]) : j \in (1..Len(sym.result)) \ {k}}

(***************************************************************************)
(* C22 as stated: when MinimizePaths has returned, no strict subset of the *)
(* returned paths covers every site of the input: removing any one         *)
(* returned path leaves some site uncovered.                               *)
(***************************************************************************)
C22_NoStrictSubsetCovers ==
    Minimized =>
        \A k \in 1..Len(sym.result) : SitesWithout(k) # Sites(sym.paths)

(***************************************************************************)
(* C22 as amended: every selected path covered, at the moment it was       *)
(* selected, at least one site that no path selected before it covers.     *)
(***************************************************************************)
C22_EachSelectionAddsASite ==
    sym.op = "MinimizePaths" =>
        \A k \in 1..Len(sym.result) :
            PathSites(sym.result[k]) \
                UNION {PathSites(sym.result[j]) : j \in 1..(k - 1)} # {}

\* The path selected first has become redundant: the paths selected after it
\* cover every site.
C22_Witness ==
    /\ Minimized
    /\ Len(sym.result) = 3
    /\ SitesWithout(1) = Sites(sym.paths)

\* The arm tokens the enumerator puts after an if_statement token.
IsArm(token) == token \in {"cond-then", "cond-else"}

\* The arms <<index of the if site, arm token>> a path takes.
PathArms(path) ==
    {<<i - 1, path[i + 1]>> :
        i \in {j \in 1..(Len(path) - 1) :
                  path[j] = "if_statement" /\ IsArm(path[j + 1])}}

\* The arms the paths of a list take.
Arms(paths) == UNION {PathArms(paths[k]) : k \in 1..Len(paths)}

(***************************************************************************)
(* C23: when MinimizePaths has returned, every arm of an if site that some *)
(* input path takes is taken by some returned path; for the input of       *)
(* scenario S5 the result has two paths, one through the then arm and one  *)
(* through the else arm.                                                   *)
(***************************************************************************)
C23_BothArmsKept ==
    Minimized =>
        /\ Arms(sym.result) = Arms(sym.paths)
        /\ sym.paths = S5Paths =>
              /\ Len(sym.result) = 2
              /\ \E k \in 1..2 : sym.result[k][2] = "cond-then"
              /\ \E k \in 1..2 : sym.result[k][2] = "cond-else"

(***************************************************************************)
(* The path enumerator (worker/symprompt_worker.go, CollectPathsPython and *)
(* CollectPathsJava) on a syntax tree.  A node is a record of its kind,    *)
(* its named children and, per field name, the index of the child in that  *)
(* field (0 when the field is absent).                                     *)
(*                                                                         *)
(* The running path cur is a Go slice, and append(cur, x) writes into the  *)
(* array of cur when it has spare capacity, so that slices made from one   *)
(* cur share their array; the emitted paths are such slices.  The model    *)
(* keeps the arrays in a heap: a slice is an array and a length, and an    *)
(* emitted path is read from the heap when the enumerator has returned.    *)
(***************************************************************************)
FieldNames ==
    {"condition", "consequence", "alternative", "body", "finalbody",
     "finally_block", "name"}

NoFields == [f \in FieldNames |-> 0]

\* A nil *tree_sitter.Node.
Nil == [kind |-> "nil", children |-> <<>>, fields |-> NoFields]

\* A node without fields.
Node(kind, children) == [kind |-> kind, children |-> children, fields |-> NoFields]

\* node.ChildByFieldName(name)
ChildByFieldName(node, name) ==
    IF node.fields[name] = 0 THEN Nil ELSE node.children[node.fields[name]]

\* getNodeText(node): the source text of a node; the model takes the kind of
\* the node for it.
getNodeText(node) == node.kind

\* The languages of the two enumerators.
Languages == {"python", "java"}

\* The kind of the clauses of a try statement and the token put before them.
ClauseKind(lang) == IF lang = "python" THEN "except_clause" ELSE "catch_clause"
ClauseToken(lang) == IF lang = "python" THEN "except" ELSE "catch"
\* The field of the finally block.
FinallyField(lang) == IF lang = "python" THEN "finalbody" ELSE "finally_block"
\* case "switch_expression", "switch_statement": only in CollectPathsJava.
SwitchKinds(lang) ==
    IF lang = "java" THEN {"switch_expression", "switch_statement"} ELSE {}
SwitchBlockKinds == {"switch_block", "switch_block_statement_group"}

\* []string{}: the empty slice, with no array.
EmptySlice == [arr |-> 0, len |-> 0]

\* cap(s)
Cap(heap, s) == IF s.arr = 0 THEN 0 ELSE Len(heap[s.arr])

\* The capacity append gives the new array when one element does not fit
\* (the doubling of the Go runtime for small slices).
GrownCap(cap) == IF cap = 0 THEN 1 ELSE 2 * cap

\* n zero strings: the spare slots of a new array.
RECURSIVE Zeroed(_)
Zeroed(n) == IF n = 0 THEN <<>> ELSE <<"">> \o Zeroed(n - 1)

\* array[i] = token
RECURSIVE Store(_, _, _)
Store(array, i, token) ==
    IF i = 1 THEN <<token>> \o Tail(array)
    ELSE <<Head(array)>> \o Store(Tail(array), i - 1, token)

\* The strings a slice holds.
Read(heap, s) == IF s.len = 0 THEN <<>> ELSE SubSeq(heap[s.arr], 1, s.len)

\* append(s, token): in place when the array of s has spare capacity, else
\* into a new array holding a copy of s.  Yields the heap and the slice.
GoAppend(heap, s, token) ==
    IF s.len < Cap(heap, s)
    THEN [heap |-> [heap EXCEPT ![s.arr] = Store(@, s.len + 1, token)],
          slice |-> [arr |-> s.arr, len |-> s.len + 1]]
    ELSE [heap |-> Append(heap,
                     Store(Read(heap, s) \o Zeroed(GrownCap(Cap(heap, s)) - s.len),
                           s.len + 1, token)),
          slice |-> [arr |-> Len(heap) + 1, len |-> s.len + 1]]

\* The state of an enumeration: the heap and *paths.  Each emitted path is
\* kept with the position (child indices from the root) of the node at
\* which it was emitted and with the tokens it held at that moment.
RECURSIVE CollectPaths(_, _, _, _, _)
RECURSIVE CollectChildren(_, _, _, _, _, _, _, _)

\* The loops over the named children of a node, from child i on: every child
\* (kinds = {}: the loop at the end of the function) or the children of the
\* given kinds, each with the token appended to cur.
CollectChildren(lang, node, pos, i, kinds, token, cur, st) ==
    IF i > Len(node.children) THEN st
    ELSE LET c == node.children[i]
             next ==
                 IF kinds = {}
                 THEN CollectPaths(lang, c, pos \o <<i>>, cur, st)
                 ELSE IF c.kind \in kinds
                      THEN LET a == GoAppend(st.heap, cur, token)
                           IN  CollectPaths(lang, c, pos \o <<i>>, a.slice,
                                            [st EXCEPT !.heap = a.heap])
                      ELSE st
         IN  CollectChildren(lang, node, pos, i + 1, kinds, token, cur, next)

\* CollectPathsPython / CollectPathsJava(node, getNodeText, cur, paths).
CollectPaths(lang, node, pos, cur0, st0) ==
    IF node = Nil THEN st0
    ELSE
    LET a == GoAppend(st0.heap, cur0, node.kind)
        cur == a.slice
        st == [st0 EXCEPT !.heap = a.heap]
        \* recursion into the child in a field, with a token appended to cur
        Into(field, token, s) ==
            LET b == GoAppend(s.heap, cur, token)
            IN  CollectPaths(lang, ChildByFieldName(node, field),
                             pos \o <<node.fields[field]>>, b.slice,
                             [s EXCEPT !.heap = b.heap])
    IN  IF node.kind = "if_statement"
        THEN LET cond == IF ChildByFieldName(node, "condition") # Nil
                         THEN "if:" \o getNodeText(ChildByFieldName(node, "condition"))
                         ELSE "if"
                 then == Into("consequence", cond \o "-then", st)
             IN  IF ChildByFieldName(node, "alternative") # Nil
                 THEN Into("alternative", cond \o "-else", then)
                 ELSE then
        ELSE IF node.kind \in {"for_statement", "while_statement"}
        THEN Into("body", node.kind, st)
        ELSE IF node.kind \in SwitchKinds(lang)
        THEN CollectChildren(lang, node, pos, 1, SwitchBlockKinds, "switch-case", cur, st)
        ELSE IF node.kind = "try_statement"
        THEN LET try == Into("body", "try", st)
                 clauses == CollectChildren(lang, node, pos, 1, {ClauseKind(lang)},
                                            ClauseToken(lang), cur, try)
             IN  IF ChildByFieldName(node, FinallyField(lang)) # Nil
                 THEN Into(FinallyField(lang), "finally", clauses)
                 ELSE clauses
        ELSE IF Len(node.children) = 0
        THEN [st EXCEPT !.paths = Append(@, [slice |-> cur, leaf |-> pos,
                                             emitted |-> Read(st.heap, cur)])]
        ELSE CollectChildren(lang, node, pos, 1, {}, "", cur, st)

(***************************************************************************)
(* The function bodies the enumerator is called on: a block of statements  *)
(* (expression statements, if with and without else, while, try with a     *)
(* clause and with or without a finally block, switch) over two kinds of   *)
(* leaves, and an if with else inside the block of a while, of an if and   *)
(* of an else.                                                             *)
(***************************************************************************)
\* The largest number of statements of a body.
MaxStatements == 2

Identifier == Node("identifier", <<>>)
Integer == Node("integer", <<>>)
LeafNodes == {Identifier, Integer}
Conditions == {Identifier, Node("comparison_operator", <<Identifier, Integer>>)}
Expressions == LeafNodes \cup {Node("call", <<Identifier, Integer>>)}

IfNode(c, t) ==
    [kind |-> "if_statement", children |-> <<c, t>>,
     fields |-> [NoFields EXCEPT !["condition"] = 1, !["consequence"] = 2]]
IfElseNode(c, t, e) ==
    [kind |-> "if_statement", children |-> <<c, t, e>>,
     fields |-> [NoFields EXCEPT !["condition"] = 1, !["consequence"] = 2,
                                 !["alternative"] = 3]]
WhileNode(c, b) ==
    [kind |-> "while_statement", children |-> <<c, b>>,
     fields |-> [NoFields EXCEPT !["condition"] = 1, !["body"] = 2]]
TryNode(lang, b, x) ==
    [kind |-> "try_statement", children |-> <<b, Node(ClauseKind(lang), <<x>>)>>,
     fields |-> [NoFields EXCEPT !["body"] = 1]]
TryFinallyNode(lang, b, x, f) ==
    [kind |-> "try_statement", children |-> <<b, Node(ClauseKind(lang), <<x>>), f>>,
     fields |-> [NoFields EXCEPT !["body"] = 1, ![FinallyField(lang)] = 3]]
SwitchNode(c, b) ==
    Node("switch_statement", <<c, Node("switch_block", <<b>>)>>)

\* A block holding an if with both arms.
IfElseBlock == Node("block", <<IfElseNode(Identifier, Identifier, Integer)>>)

NestedStatements ==
    {WhileNode(Identifier, IfElseBlock),
     IfNode(Identifier, IfElseBlock),
     IfElseNode(Identifier, Integer, IfElseBlock)}

Statements(lang) ==
    NestedStatements
    \cup {Node("expression_statement", <<e>>) : e \in Expressions}
    \cup {Node("expression_statement", <<a, b>>) : a \in LeafNodes, b \in LeafNodes}
    \cup {IfNode(c, t) : c \in Conditions, t \in LeafNodes}
    \cup {IfElseNode(c, t, e) : c \in Conditions, t \in LeafNodes, e \in LeafNodes}
    \cup {WhileNode(c, b) : c \in Conditions, b \in LeafNodes}
    \cup {TryNode(lang, b, x) : b \in LeafNodes, x \in LeafNodes}
    \cup {TryFinallyNode(lang, b, x, Integer) : b \in LeafNodes, x \in LeafNodes}
    \cup {SwitchNode(Identifier, b) : b \in LeafNodes}

\* bodyNode := fn.ChildByFieldName("body")
Bodies(lang) ==
    UNION {{Node("block", s) : s \in [1..n -> Statements(lang)]} : n \in 1..MaxStatements}

\* CollectPathsPython(bodyNode, getNodeText, []string{}, &paths)
CollectCall(lang, body) ==
    [op |-> "CollectPaths", pc |-> "call", lang |-> lang, root |-> body,
     paths |-> <<>>]

EnumInit ==
    /\ workerCount = WorkerCount
    /\ shutdown = "idle"
    /\ NewState
    /\ sym \in UNION {{CollectCall(lang, body) : body \in Bodies(lang)} : lang \in Languages}

\* The enumerator returns; paths holds what the emitted slices now read,
\* each with the position of the leaf it was emitted at and the tokens it
\* held when it was emitted.
CollectReturns ==
    /\ sym.op = "CollectPaths"
    /\ sym.pc = "call"
    /\ LET st == CollectPaths(sym.lang, sym.root, <<>>, EmptySlice,
                              [heap |-> <<>>, paths |-> <<>>])
       IN  sym' = [sym EXCEPT
                    !.pc = "done",
                    !.paths = [k \in 1..Len(st.paths) |->
                                  [tokens |-> Read(st.heap, st.paths[k].slice),
                                   leaf |-> st.paths[k].leaf,
                                   emitted |-> st.paths[k].emitted]]]
    /\ UNCHANGED <<workerCount, dwVars, poolVars, callVars, llmCalls, mu, client>>

EnumNext == CollectReturns

EnumSpec == EnumInit /\ [][EnumNext]_vars

\* The enumerator has returned.
Enumerated == sym.op = "CollectPaths" /\ sym.pc = "done"

\* The positions of the leaves (nodes without named children) of a subtree.
RECURSIVE LeafPositions(_, _)
LeafPositions(node, pos) ==
    IF Len(node.children) = 0 THEN {pos}
    ELSE UNION {LeafPositions(node.children[i], pos \o <<i>>) :
                   i \in 1..Len(node.children)}

\* The node at a position.
RECURSIVE NodeAt(_, _)
NodeAt(node, pos) ==
    IF pos = <<>> THEN node ELSE NodeAt(node.children[Head(pos)], Tail(pos))

\* The emitted paths that end at the leaf at a position: emitted there, with
\* the kind of the leaf as last token.
EndingAt(pos) ==
    {k \in 1..Len(sym.paths) :
        /\ sym.paths[k].leaf = pos
        /\ sym.paths[k].tokens[Len(sym.paths[k].tokens)] = NodeAt(sym.root, pos).kind}

(***************************************************************************)
(* C24: when the enumerator has returned, every leaf of the function body, *)
(* also one inside an if condition, a loop header or a clause of a try     *)
(* statement, is the end of exactly one emitted path, and every emitted    *)
(* path ends at a leaf.                                                    *)
(***************************************************************************)
C24_PathsPartitionLeaves ==
    Enumerated =>
        /\ \A pos \in LeafPositions(sym.root, <<>>) :
              Cardinality(EndingAt(pos)) = 1
        /\ \A k \in 1..Len(sym.paths) :
              \E pos \in LeafPositions(sym.root, <<>>) : k \in EndingAt(pos)

(***************************************************************************)
(* C25: when handing a dequeued task to the pool has failed, the           *)
(* dispatcher leaves that point of its loop in one of two ways: the task   *)
(* is back on the task channel (in its buffer, or received by another      *)
(* dispatcher when the channel has none), or the wait has timed out and    *)
(* the task is out of the table; and the dispatcher does leave that point, *)
(* so no task stays in the table in neither the queue nor the pool because *)
(* of a failed hand-off.                                                   *)
(***************************************************************************)
\* Dispatcher d holds a task the pool has refused.
HandOffFailed(d) == dispatcher[d].pc = "requeue"

\* The task for p is in the hands of a dispatcher other than d.
ReceivedByOther(d, p) ==
    \E e \in DispatcherIds \ {d} :
        dispatcher[e].pc \in {"submit", "requeue"} /\ dispatcher[e].task.SourcePath = p

C25_FailedHandOffRequeuesOrCompletes ==
    /\ [][\A d \in DispatcherIds :
            \A p \in Paths :
                (/\ HandOffFailed(d)
                 /\ dispatcher[d].task.SourcePath = p
                 /\ ~HandOffFailed(d)') =>
                    \/ /\ InQueue(p)' = InQueue(p) + 1
                       /\ activeTasks' = activeTasks
                    \/ /\ ReceivedByOther(d, p)'
                       /\ activeTasks' = activeTasks
                    \/ /\ p \notin DOMAIN activeTasks'
                       /\ tasks' = tasks]_vars
    /\ \A d \in DispatcherIds : HandOffFailed(d) ~> ~HandOffFailed(d)

\* The pool has refused a task that is in the table and in neither the queue
\* nor the pool, while the queue is full: the dispatcher's wait will time out.
C25_Witness ==
    \E d \in DispatcherIds :
        /\ HandOffFailed(d)
        /\ dispatcher[d].task.SourcePath \in DOMAIN activeTasks
        /\ InQueue(dispatcher[d].task.SourcePath) = 0
        /\ InPoolQueue(dispatcher[d].task.SourcePath) = 0
        /\ ~TasksHasRoom

(***************************************************************************)
(* C26: once the context has been cancelled, no dispatcher receives a task *)
(* from the task channel and no dispatcher sends a closure to the pool.    *)
(***************************************************************************)
\* Dispatcher d takes a task from dw.tasks in this step.
Dequeues(d) ==
    /\ dispatcher[d].pc = "select"
    /\ dispatcher'[d].pc \in {"submit", "requeue"}

\* Dispatcher d hands its closure to the pool in this step.
SubmitsClosure(d) ==
    /\ dispatcher[d].pc = "submit"
    /\ Len(poolTasks') = Len(poolTasks) + 1

C26_CancelStopsDispatcher ==
    [][ctxDone => \A d \in DispatcherIds : ~Dequeues(d) /\ ~SubmitsClosure(d)]_vars

(***************************************************************************)
(* Cancellation with deterministic stubs.  processTask hands the           *)
(* scheduler's own context to the model, dw.model.Generate(dw.ctx,         *)
(* prompt), and the models of the repository pass it on to their client    *)
(* (fileio.go, ChatModelTest.Generate): a call made with a context that is *)
(* or becomes cancelled may return the context's error in place of the     *)
(* model's answer, or the answer if it was already there.  The client      *)
(* calls Run once, SubmitTask for the paths of SubmitSeq and Shutdown; the *)
(* model always has an answer and the callback reports CoverageStub.       *)
(* Dispatchers and executors are scheduled fairly.                         *)
(***************************************************************************)
\* The results (err == nil) Generate(dw.ctx, prompt) can return for a model
\* whose answer is answered.
GenerateOutcomes(answered) ==
    IF ctxDone THEN {answered, FALSE} ELSE {answered}

CancelGenerateReturns(w) ==
    \E ok \in GenerateOutcomes(TRUE) : GenerateReturns(w, ok)

CancelNext ==
    \/ DetRun
    \/ DetSubmitTask
    \/ \E d \in DispatcherIds : DispatchReceive(d)
    \/ \E d \in DispatcherIds : DispatchCancelled(d)
    \/ \E d \in DispatcherIds : DispatchSubmit(d)
    \/ \E d \in DispatcherIds : DispatchRequeue(d)
    \/ \E w \in WorkerIds : WorkerTake(w)
    \/ \E w \in WorkerIds : WorkerQuit(w)
    \/ \E w \in WorkerIds : CancelGenerateReturns(w)
    \/ \E w \in WorkerIds : DetCallbackReturns(w)
    \/ \E w \in WorkerIds : ClosureReturns(w)
    \/ ShutdownCancel
    \/ ShutdownPool
    \/ ShutdownReturns

CancelWorkerStep(w) ==
    \/ WorkerTake(w)
    \/ WorkerQuit(w)
    \/ CancelGenerateReturns(w)
    \/ DetCallbackReturns(w)
    \/ ClosureReturns(w)

CancelSpec ==
    /\ Init
    /\ [][CancelNext]_vars
    /\ \A d \in DispatcherIds : WF_vars(DispatcherStep(d))
    /\ \A w \in WorkerIds : WF_vars(CancelWorkerStep(w))

(***************************************************************************)
(* C27: a closure whose LLM call is in progress while the context is not   *)
(* cancelled goes on to the coverage callback, as it does in a run without *)
(* cancellation, whether or not the context is cancelled meanwhile.        *)
(***************************************************************************)
C27_InFlightClosureUnaffected ==
    \A w \in WorkerIds :
        (worker[w].pc = "generate" /\ ~ctxDone) ~> (worker[w].pc = "callback")

(***************************************************************************)
(* C28: whatever Run calls are made on one scheduler, at most one          *)
(* dispatcher goroutine is active, so dw.tasks has a single consumer.      *)
(***************************************************************************)
\* The dispatcher goroutines that have been started and have not returned.
ActiveDispatchers ==
    {d \in DispatcherIds : dispatcher[d].pc \notin {"unstarted", "exited"}}

C28_SingleDispatcher == Cardinality(ActiveDispatchers) <= 1

(***************************************************************************)
(* C30 as stated: no task is in the task queue while the closure that      *)
(* processed its previous round is still being executed.                   *)
(***************************************************************************)
\* The task queue holds the task executor w has re-enqueued.
ReEnqueuedBy(w) ==
    /\ worker[w].task.Iterations >= 1
    /\ \E i \in 1..Len(tasks) : tasks[i] = worker[w].task

C30_QueuedOnlyAfterRelease ==
    \A w \in WorkerIds :
        worker[w].pc \in {"generate", "callback", "return"} => ~ReEnqueuedBy(w)

(***************************************************************************)
(* C30: a task is re-enqueued by the closure that processed its previous   *)
(* round, as the last thing that closure does: while a task is in the task *)
(* queue no closure for its path is in the LLM call or in the coverage     *)
(* callback, and the closure that re-enqueued it only has to return.       *)
(***************************************************************************)
C30_QueuedOnlyAfterLastStep ==
    /\ \A p \in Paths : InQueue(p) >= 1 => Processing(p) = 0
    /\ \A w \in WorkerIds :
          (worker[w].pc \in {"generate", "callback", "return"} /\ ReEnqueuedBy(w)) =>
              worker[w].pc = "return"

\* A closure has re-enqueued its task and has not yet returned.
C30_Witness ==
    \E w \in WorkerIds :
        /\ worker[w].pc = "return"
        /\ worker[w].err = "none"
        /\ ReEnqueuedBy(w)
        /\ worker[w].task.SourcePath \in DOMAIN activeTasks

(***************************************************************************)
(* The scheduler with the critical sections of dw.mu as steps of their     *)
(* own: every dw.mu.Lock() is a step that waits for the mutex, and the     *)
(* code between Lock and the deferred Unlock is the step that follows.     *)
(* Client threads call SubmitTask and GetTaskStatus concurrently; the      *)
(* executors and the dispatchers take the mutex in completeTask.  Run,     *)
(* the receive of the dispatcher, pool.Submit and the pool's executors do  *)
(* not touch dw.mu and are the actions of Spec.  Run is called once;        *)
(* Shutdown, which does not take dw.mu either, is not called.              *)
(***************************************************************************)
\* Mutant: the send under the mutex waits for room in the channel.
SendUnderLock_blocking(proceeds) == IF proceeds THEN "sent" ELSE "blocked"

\* SubmitTask: select { case dw.tasks <- task: ... default: ... }, under dw.mu
SendUnderLock(proceeds) == IF proceeds THEN "sent" ELSE "default"

\* dw.mu.Lock() by thread: it waits until the mutex is free.
Lock(thread) ==
    /\ mu = Free
    /\ mu' = thread

\* The deferred dw.mu.Unlock().
Unlock(thread) ==
    /\ mu = thread
    /\ mu' = Free

\* A client thread enters SubmitTask or GetTaskStatus: dw.mu.Lock() is next.
ClientCalls(c, op, sourcePath) ==
    /\ Alive
    /\ submitCalls < MaxSubmitCalls
    /\ client[c].pc = "idle"
    /\ client' = [client EXCEPT ![c] = [pc |-> "lock", op |-> op, path |-> sourcePath]]
    /\ submitCalls' = submitCalls + 1
    /\ UNCHANGED <<shutdown, runCalls, shutdownCalls, submitErr, llmCalls>>
    /\ UNCHANGED dwVars
    /\ UNCHANGED poolVars
    /\ UNCHANGED <<workerCount, sym, mu>>

ClientLocks(c) ==
    /\ Alive
    /\ client[c].pc = "lock"
    /\ Lock(Client(c))
    /\ client' = [client EXCEPT ![c].pc = "locked"]
    /\ UNCHANGED dwVars
    /\ UNCHANGED poolVars
    /\ UNCHANGED callVars
    /\ UNCHANGED <<llmCalls, workerCount, sym>>

\* SubmitTask between Lock and Unlock: the duplicate check, the insert, the
\* send, and the delete when the send took its default case.
ClientSubmits(c) ==
    /\ Alive
    /\ client[c].op = "SubmitTask"
    /\ client[c].pc \in {"locked", "send"}
    /\ LET sourcePath == client[c].path
           task == NewTask(sourcePath)
       IN  IF client[c].pc = "locked" /\ Exists(sourcePath)
           THEN /\ submitErr' = "duplicate"
                /\ Unlock(Client(c))
                /\ client' = [client EXCEPT ![c] = NoCall]
                /\ UNCHANGED <<activeTasks, tasks, dispatcher, llmCalls>>
           ELSE IF SendUnderLock(SendTask(task) # {}) = "sent"
           THEN /\ \E sent \in SendTask(task) :
                      /\ tasks' = sent[1]
                      /\ dispatcher' = sent[2]
                /\ activeTasks' = InsertTask(activeTasks, task)
                /\ llmCalls' = [llmCalls EXCEPT ![sourcePath] = 0]
                /\ submitErr' = "nil"
                /\ Unlock(Client(c))
                /\ client' = [client EXCEPT ![c] = NoCall]
           ELSE IF SendUnderLock(SendTask(task) # {}) = "default"
           THEN /\ activeTasks' = completeTask(InsertTask(activeTasks, task), sourcePath)
                /\ submitErr' = "queue full"
                /\ Unlock(Client(c))
                /\ client' = [client EXCEPT ![c] = NoCall]
                /\ UNCHANGED <<tasks, dispatcher, llmCalls>>
           ELSE \* the thread is blocked in the send, holding the mutex
                /\ client[c].pc = "locked"
                /\ activeTasks' = InsertTask(activeTasks, task)
                /\ client' = [client EXCEPT ![c].pc = "send"]
                /\ UNCHANGED <<tasks, dispatcher, llmCalls, submitErr, mu>>
    /\ UNCHANGED <<ctxDone, shutdown, runCalls, shutdownCalls, submitCalls>>
    /\ UNCHANGED poolVars
    /\ UNCHANGED <<workerCount, sym>>

\* GetTaskStatus between Lock and Unlock: a lookup in the table.
ClientReads(c) ==
    /\ Alive
    /\ client[c].op = "GetTaskStatus"
    /\ client[c].pc = "locked"
    /\ Unlock(Client(c))
    /\ client' = [client EXCEPT ![c] = NoCall]
    /\ UNCHANGED dwVars
    /\ UNCHANGED poolVars
    /\ UNCHANGED callVars
    /\ UNCHANGED <<llmCalls, workerCount, sym>>

\* processTask: Generate returns; on an error completeTask is called.
LockGenerateReturns(w, ok) ==
    /\ Alive
    /\ worker[w].pc = "generate"
    /\ worker' = IF AfterGenerate(ok) = "callback"
                 THEN [worker EXCEPT ![w].pc = "callback"]
                 ELSE [worker EXCEPT ![w].pc = "lock", ![w].err = "generate"]
    /\ UNCHANGED <<poolRunning, poolQuit, poolTasks, poolStarts>>
    /\ UNCHANGED dwVars
    /\ UNCHANGED callVars
    /\ UNCHANGED <<llmCalls, workerCount, sym, mu, client>>

\* processTask: the callback returns; the task is sent back on dw.tasks, or
\* completeTask is called.
LockCallbackReturns(w, ok, coverage) ==
    /\ Alive
    /\ worker[w].pc = "callback"
    /\ IF ~ok
       THEN /\ worker' = [worker EXCEPT ![w].pc = "lock", ![w].err = "callback"]
            /\ UNCHANGED <<tasks, dispatcher>>
       ELSE LET updated == UpdateBest(worker[w].task, coverage)
                retried == [updated EXCEPT !.Iterations = @ + 1]
            IN  IF ShouldRetry(updated, coverage)
                THEN \/ /\ \E sent \in SendTask(retried) :
                              /\ tasks' = sent[1]
                              /\ dispatcher' = sent[2]
                        /\ worker' = [worker EXCEPT ![w].pc = "return", ![w].task = retried]
                     \/ /\ ~TasksHasRoom
                        /\ worker' = [worker EXCEPT ![w].pc = "lock", ![w].task = retried]
                        /\ UNCHANGED <<tasks, dispatcher>>
                ELSE /\ worker' = [worker EXCEPT ![w].pc = "lock", ![w].task = updated]
                     /\ UNCHANGED <<tasks, dispatcher>>
    /\ UNCHANGED <<activeTasks, ctxDone, llmCalls>>
    /\ UNCHANGED <<poolRunning, poolQuit, poolTasks, poolStarts>>
    /\ UNCHANGED callVars
    /\ UNCHANGED <<workerCount, sym, mu, client>>

\* completeTask called by processTask: dw.mu.Lock()
ExecutorLocks(w) ==
    /\ Alive
    /\ worker[w].pc = "lock"
    /\ Lock(Executor(w))
    /\ worker' = [worker EXCEPT ![w].pc = "locked"]
    /\ UNCHANGED <<poolRunning, poolQuit, poolTasks, poolStarts>>
    /\ UNCHANGED dwVars
    /\ UNCHANGED callVars
    /\ UNCHANGED <<llmCalls, workerCount, sym, client>>

\* completeTask: delete(dw.activeTasks, sourcePath) and the deferred Unlock
ExecutorCompletes(w) ==
    /\ Alive
    /\ worker[w].pc = "locked"
    /\ activeTasks' = completeTask(activeTasks, worker[w].task.SourcePath)
    /\ Unlock(Executor(w))
    /\ worker' = [worker EXCEPT ![w].pc = "return"]
    /\ UNCHANGED <<poolRunning, poolQuit, poolTasks, poolStarts>>
    /\ UNCHANGED <<tasks, ctxDone, dispatcher>>
    /\ UNCHANGED callVars
    /\ UNCHANGED <<llmCalls, workerCount, sym, client>>

\* The dispatcher after a failed Submit: the send on dw.tasks, or after 3 s
\* the call of completeTask.
LockDispatchRequeue(d) ==
    /\ Alive
    /\ dispatcher[d].pc = "requeue"
    /\ IF SendTask(dispatcher[d].task) # {}
       THEN \E sent \in SendTask(dispatcher[d].task) :
               /\ tasks' = sent[1]
               /\ dispatcher' = [sent[2] EXCEPT ![d] = [pc |-> "select", task |-> NoTask]]
       ELSE /\ dispatcher' = [dispatcher EXCEPT ![d].pc = "lock"]
            /\ UNCHANGED tasks
    /\ UNCHANGED <<activeTasks, ctxDone, llmCalls>>
    /\ UNCHANGED poolVars
    /\ UNCHANGED callVars
    /\ UNCHANGED <<workerCount, sym, mu, client>>

\* completeTask called by the dispatcher: dw.mu.Lock()
DispatcherLocks(d) ==
    /\ Alive
    /\ dispatcher[d].pc = "lock"
    /\ Lock(Dispatcher(d))
    /\ dispatcher' = [dispatcher EXCEPT ![d].pc = "locked"]
    /\ UNCHANGED <<activeTasks, tasks, ctxDone, llmCalls>>
    /\ UNCHANGED poolVars
    /\ UNCHANGED callVars
    /\ UNCHANGED <<workerCount, sym, client>>

DispatcherCompletes(d) ==
    /\ Alive
    /\ dispatcher[d].pc = "locked"
    /\ activeTasks' = completeTask(activeTasks, dispatcher[d].task.SourcePath)
    /\ Unlock(Dispatcher(d))
    /\ dispatcher' = [dispatcher EXCEPT ![d] = [pc |-> "select", task |-> NoTask]]
    /\ UNCHANGED <<tasks, ctxDone, llmCalls>>
    /\ UNCHANGED poolVars
    /\ UNCHANGED callVars
    /\ UNCHANGED <<workerCount, sym, client>>

\* The calls clients make.
ClientOps == {"SubmitTask", "GetTaskStatus"}

LockNext ==
    \/ \E c \in ClientIds, op \in ClientOps, p \in Paths : ClientCalls(c, op, p)
    \/ \E c \in ClientIds : ClientLocks(c)
    \/ \E c \in ClientIds : ClientSubmits(c)
    \/ \E c \in ClientIds : ClientReads(c)
    \/ DetRun
    \/ \E d \in DispatcherIds : DispatchReceive(d)
    \/ \E d \in DispatcherIds : DispatchSubmit(d)
    \/ \E d \in DispatcherIds : LockDispatchRequeue(d)
    \/ \E d \in DispatcherIds : DispatcherLocks(d)
    \/ \E d \in DispatcherIds : DispatcherCompletes(d)
    \/ \E w \in WorkerIds : WorkerTake(w)
    \/ \E w \in WorkerIds, ok \in BOOLEAN : LockGenerateReturns(w, ok)
    \/ \E w \in WorkerIds, ok \in BOOLEAN, c \in Coverages : LockCallbackReturns(w, ok, c)
    \/ \E w \in WorkerIds : ExecutorLocks(w)
    \/ \E w \in WorkerIds : ExecutorCompletes(w)
    \/ \E w \in WorkerIds : ClosureReturns(w)

\* The steps of the threads.  Each is scheduled fairly; a thread waiting in
\* dw.mu.Lock() gets the mutex if it stays free.
ClientStep(c) ==
    \/ ClientSubmits(c)
    \/ ClientReads(c)

LockDispatcherStep(d) ==
    \/ DispatchReceive(d)
    \/ DispatchSubmit(d)
    \/ LockDispatchRequeue(d)
    \/ DispatcherCompletes(d)

LockWorkerStep(w) ==
    \/ WorkerTake(w)
    \/ \E ok \in BOOLEAN : LockGenerateReturns(w, ok)
    \/ \E ok \in BOOLEAN, c \in Coverages : LockCallbackReturns(w, ok, c)
    \/ ExecutorCompletes(w)
    \/ ClosureReturns(w)

LockSpec ==
    /\ Init
    /\ [][LockNext]_vars
    /\ \A c \in ClientIds : WF_vars(ClientStep(c)) /\ WF_vars(ClientLocks(c))
    /\ \A d \in DispatcherIds : WF_vars(LockDispatcherStep(d)) /\ WF_vars(DispatcherLocks(d))
    /\ \A w \in WorkerIds : WF_vars(LockWorkerStep(w)) /\ WF_vars(ExecutorLocks(w))

\* The thread that holds dw.mu is inside one of the critical sections.
Holds(thread) == mu = thread

\* Thread waits in dw.mu.Lock().
WaitsForMutex(thread) ==
    \/ thread.kind = "client" /\ client[thread.id].pc = "lock"
    \/ thread.kind = "executor" /\ worker[thread.id].pc = "lock"
    \/ thread.kind = "dispatcher" /\ dispatcher[thread.id].pc = "lock"

\* The threads of a scheduler on which Run is called once: the clients, the
\* executors of the pool and the dispatcher.
Threads ==
    {Client(c) : c \in ClientIds} \cup {Executor(w) : w \in 1..WorkerCount}
        \cup {Dispatcher(1)}

(***************************************************************************)
(* C29: the thread that holds dw.mu is not in an LLM call, not in a        *)
(* coverage callback and not blocked in a channel send (the send of        *)
(* SubmitTask, pool.Submit or the dispatcher's requeue); and a thread that *)
(* waits for the mutex gets it.                                            *)
(***************************************************************************)
C29_LockDiscipline ==
    /\ [](/\ \A w \in WorkerIds :
               Holds(Executor(w)) => worker[w].pc \notin {"generate", "callback"}
          /\ \A d \in DispatcherIds :
               Holds(Dispatcher(d)) => dispatcher[d].pc \notin {"submit", "requeue"}
          /\ \A c \in ClientIds :
               Holds(Client(c)) => client[c].pc # "send")
    /\ \A t \in Threads : WaitsForMutex(t) ~> Holds(t)

\* Two threads contend for the mutex: a client holds it inside SubmitTask
\* while an executor waits for it in completeTask and the task queue is full.
C29_Witness ==
    \E c \in ClientIds, w \in WorkerIds :
        /\ Holds(Client(c))
        /\ client[c].op = "SubmitTask"
        /\ WaitsForMutex(Executor(w))
        /\ ~TasksHasRoom

(***************************************************************************)
(* C31: once Shutdown has closed the quit channel, no executor takes a     *)
(* closure from the pool's queue and invokes it.                           *)
(***************************************************************************)
\* Executor w receives a closure from wp.tasks and invokes it in this step.
Invokes(w) ==
    /\ worker[w].pc = "idle"
    /\ worker'[w].pc = "task"

C31_QueuedClosuresDropped ==
    [][poolQuit => \A w \in WorkerIds : ~Invokes(w)]_vars

\* The input paths with the indexes in S cover every site of the input.
Covers(S) == UNION {PathSites(sym.paths[i]) : i \in S} = Sites(sym.paths)

\* The sets of input paths that cover every site of the input.
Covering == {S \in SUBSET (1..Len(sym.paths)) : Covers(S)}

(***************************************************************************)
(* C32 as stated: when MinimizePaths has returned, no set of input paths   *)
(* with fewer paths than the returned list covers every site of the input. *)
(***************************************************************************)
C32_ResultIsMinimum ==
    Minimized => \A S \in Covering : Cardinality(S) >= Len(sym.result)

(***************************************************************************)
(* C32 as amended: the returned list covers every site of the input, and   *)
(* when it has at most two paths no set of fewer input paths does.         *)
(***************************************************************************)
C32_SmallResultIsMinimum ==
    Minimized =>
        /\ \E S \in Covering :
              /\ Cardinality(S) = Len(sym.result)
              /\ \A k \in 1..Len(sym.result) : \E i \in S : sym.paths[i] = sym.result[k]
        /\ Len(sym.result) <= 2 =>
              \A S \in Covering : Cardinality(S) >= Len(sym.result)

\* Two paths were returned for three input paths none of which covers every
\* site alone, although one of them covers nothing new.
C32_Witness ==
    /\ Minimized
    /\ Len(sym.paths) = 3
    /\ Len(sym.result) = 2
    /\ \A S \in Covering : Cardinality(S) >= 2
    /\ \E i \in 1..3 : PathSites(sym.paths[i]) # {}
                       /\ \A k \in 1..2 : sym.result[k] # sym.paths[i]

\* The number of sites input path i would add to the covered ones.
Gain(i) == Cardinality(NewCover(sym.paths[i], sym.covered))

\* The input paths not selected so far.
Unused == (1..Len(sym.paths)) \ sym.used

(***************************************************************************)
(* C33: every selection step takes an unused path that adds the greatest   *)
(* number of new sites, the one with the lowest index among those that do, *)
(* and that number is at least one; this determines the step, so the       *)
(* output is a function of the input.  Each input path is selected at most *)
(* once, and the result has at most as many paths as the input and as      *)
(* there are distinct sites.                                               *)
(***************************************************************************)
C33_GreedyStep ==
    /\ [](sym.op = "MinimizePaths" =>
            /\ Cardinality(sym.used) = Len(sym.result)
            /\ sym.used \subseteq 1..Len(sym.paths)
            /\ Len(sym.result) <= Len(sym.paths)
            /\ Len(sym.result) <= Cardinality(Sites(sym.paths)))
    /\ [][(sym.op = "MinimizePaths" /\ sym'.result # sym.result) =>
            \E i \in Unused :
                /\ sym'.used = sym.used \cup {i}
                /\ sym'.result = Append(sym.result, sym.paths[i])
                /\ sym'.covered = sym.covered \cup PathSites(sym.paths[i])
                /\ Gain(i) >= 1
                /\ \A j \in Unused : Gain(j) <= Gain(i)
                /\ \A j \in Unused : j < i => Gain(j) < Gain(i)]_vars

\* The first of two different paths that tied for the most new sites has been
\* selected, and the second is needed as well.
C33_Witness ==
    /\ sym.op = "MinimizePaths"
    /\ Len(sym.paths) >= 2
    /\ sym.used = {1}
    /\ sym.paths[1] # sym.paths[2]
    /\ Cardinality(PathSites(sym.paths[1])) = Cardinality(PathSites(sym.paths[2]))
    /\ Gain(2) >= 1

\* The token an enumerator puts between the kind of a node and the kind of
\* its i-th child, as a sequence of at most one token.
ArmTokens(lang, node, i) ==
    IF node.kind = "if_statement"
    THEN LET cond == "if:" \o getNodeText(ChildByFieldName(node, "condition"))
         IN  IF i = node.fields["consequence"] THEN <<cond \o "-then">>
             ELSE IF i = node.fields["alternative"] THEN <<cond \o "-else">>
             ELSE <<>>
    ELSE IF node.kind \in {"for_statement", "while_statement"}
    THEN IF i = node.fields["body"] THEN <<node.kind>> ELSE <<>>
    ELSE IF node.kind \in SwitchKinds(lang)
    THEN IF node.children[i].kind \in SwitchBlockKinds THEN <<"switch-case">> ELSE <<>>
    ELSE IF node.kind = "try_statement"
    THEN IF i = node.fields["body"] THEN <<"try">>
         ELSE IF node.children[i].kind = ClauseKind(lang) THEN <<ClauseToken(lang)>>
         ELSE IF i = node.fields[FinallyField(lang)] THEN <<"finally">>
         ELSE <<>>
    ELSE <<>>

\* The number of tokens of a path from a node down to the node at a
\* position, the kind of that node included.
RECURSIVE TokensTo(_, _, _)
TokensTo(lang, node, pos) ==
    IF pos = <<>> THEN 1
    ELSE 1 + Len(ArmTokens(lang, node, Head(pos)))
           + TokensTo(lang, node.children[Head(pos)], Tail(pos))

\* The positions of the if statements above a leaf, each with the arm
\* (child index) the leaf is under.
IfsAbove(pos) ==
    {n \in 0..(Len(pos) - 1) : NodeAt(sym.root, SubSeq(pos, 1, n)).kind = "if_statement"}

\* The token an emitted path must carry right after the kind of the if
\* statement n steps down its position.
ArmOf(pos, n) ==
    ArmTokens(sym.lang, NodeAt(sym.root, SubSeq(pos, 1, n)), pos[n + 1])

(***************************************************************************)
(* C34: when the enumerator has returned, every emitted path carries, for  *)
(* every if statement above its leaf, the kind of the if statement and     *)
(* right after it the token of the arm the leaf is under: the condition    *)
(* with "-then" for the consequence and with "-else" for the alternative;  *)
(* no other arm of that if statement is on the path.                       *)
(***************************************************************************)
C34_ArmTokenAfterIf ==
    Enumerated =>
        \A k \in 1..Len(sym.paths) :
            LET pos == sym.paths[k].leaf
                tokens == sym.paths[k].tokens
            IN  \A n \in IfsAbove(pos) :
                    LET i == TokensTo(sym.lang, sym.root, SubSeq(pos, 1, n))
                    IN  /\ ArmOf(pos, n) # <<>>
                        /\ i + 1 <= Len(tokens)
                        /\ tokens[i] = "if_statement"
                        /\ tokens[i + 1] = ArmOf(pos, n)[1]

(***************************************************************************)
(* C39: a path, once emitted, is not altered by the rest of the traversal: *)
(* when the enumerator has returned, every path of the returned collection *)
(* reads the tokens it held when it was emitted, which is the collection   *)
(* of an enumerator that stores a copy of the running path.                *)
(***************************************************************************)
C39_EmittedPathsUnaltered ==
    Enumerated =>
        \A k \in 1..Len(sym.paths) : sym.paths[k].tokens = sym.paths[k].emitted

(***************************************************************************)
(* C37: over every sequence of Run and Shutdown calls the quit channel is  *)
(* closed at most once: no Shutdown call closes a quit channel that is     *)
(* already closed, so no lifecycle call panics.                            *)
(***************************************************************************)
C37_QuitClosedAtMostOnce ==
    [][/\ (shutdownCalls' # shutdownCalls /\ poolRunning) => ~poolQuit
       /\ shutdown' # "panic"]_vars

\* The number of places that hold closure i: slots of the queue and
\* executors invoking it.
Copies(i) ==
    Cardinality({k \in 1..Len(poolTasks) : poolTasks[k].id = i})
    + Cardinality({w \in WorkerIds : worker[w].pc = "task" /\ worker[w].task.id = i})

(***************************************************************************)
(* C38: a closure enters the queue only in the step of its own Submit call *)
(* and only when that call returns nil; an invocation takes the closure    *)
(* out of the queue, and no closure is ever held twice: so a closure is    *)
(* invoked at most once per successful Submit and never after a Submit     *)
(* that returned an error.  While Shutdown is not called, every closure    *)
(* in the queue is eventually invoked (executors being scheduled fairly    *)
(* and earlier closures returning or panicking).                           *)
(***************************************************************************)
C38_InvokedOncePerSubmit ==
    /\ [](\A i \in ClosureIds : Copies(i) <= 1)
    /\ [][\A i \in ClosureIds :
            /\ (Queued(i)' /\ ~Queued(i)) =>
                  /\ submitCalls = i - 1 /\ submitCalls' = i
                  /\ submitErr' = "nil"
            /\ (Invoked(i)' /\ ~Invoked(i)) => (Queued(i) /\ ~Queued(i)')
            /\ (submitCalls' = i /\ submitCalls = i - 1 /\ submitErr' # "nil") =>
                  ~Queued(i)' /\ ~Invoked(i)']_vars
    /\ \A i \in ClosureIds : Queued(i) ~> (Invoked(i) \/ shutdownCalls > 0)

\* Closure 1 is being invoked, closure 2 waits, and the Submit of closure 3
\* has returned an error; Shutdown was not called.
C38_Witness ==
    /\ shutdownCalls = 0
    /\ Invoked(1)
    /\ Queued(2)
    /\ submitCalls = 3
    /\ submitErr = "queue full"

(***************************************************************************)
(* The test path of a task.  SubmitTask derives the code type of a task    *)
(* from the suffix of its source path, processTask hands the callback      *)
(* processTestFilePath(SourcePath, CodeType), and the coverage callback    *)
(* writes the generated test to the path it is handed.  A path is the      *)
(* sequence of its characters; the file system is the set of the files     *)
(* written so far, each with what it holds.                                *)
(***************************************************************************)
\* strings.HasSuffix(s, suffix)
HasSuffix(s, suffix) ==
    /\ Len(s) >= Len(suffix)
    /\ SubSeq(s, Len(s) - Len(suffix) + 1, Len(s)) = suffix

\* strings.Index(s, old): the start of the first occurrence of old in s,
\* counted from 1, or 0.
Index(s, old) ==
    LET at == {i \in 1..(Len(s) - Len(old) + 1) : SubSeq(s, i, i + Len(old) - 1) = old}
    IN  IF at = {} THEN 0 ELSE CHOOSE i \in at : \A j \in at : i <= j

\* strings.Replace(s, old, new, 1): the first occurrence of old replaced.
ReplaceFirst(s, old, new) ==
    IF Index(s, old) = 0 THEN s
    ELSE SubSeq(s, 1, Index(s, old) - 1) \o new
         \o SubSeq(s, Index(s, old) + Len(old), Len(s))

DotGo == <<".", "g", "o">>
DotPy == <<".", "p", "y">>
DotJs == <<".", "j", "s">>
DotJava == <<".", "j", "a", "v", "a">>
DotCpp == <<".", "c", "p", "p">>

\* getCodeType(sourcePath)
getCodeType(sourcePath) ==
    IF HasSuffix(sourcePath, DotGo) THEN "go"
    ELSE IF HasSuffix(sourcePath, DotPy) THEN "python"
    ELSE IF HasSuffix(sourcePath, DotJs) THEN "javascript"
    ELSE IF HasSuffix(sourcePath, DotJava) THEN "java"
    ELSE IF HasSuffix(sourcePath, DotCpp) THEN "cpp"
    ELSE ""

\* processTestFilePath(sourcePath, codeType)
processTestFilePath(sourcePath, codeType) ==
    IF codeType = "go"
    THEN ReplaceFirst(sourcePath, DotGo, <<"_", "t", "e", "s", "t">> \o DotGo)
    ELSE IF codeType = "python"
    THEN ReplaceFirst(sourcePath, DotPy, <<"_", "t", "e", "s", "t">> \o DotPy)
    ELSE IF codeType = "javascript"
    THEN ReplaceFirst(sourcePath, DotJs, <<"_", "t", "e", "s", "t">> \o DotJs)
    ELSE IF codeType = "java"
    THEN ReplaceFirst(sourcePath, DotJava, <<"T", "e", "s", "t">> \o sourcePath)
    ELSE sourcePath

\* The source paths of the tasks: a name, in a directory or not (one
\* directory has an extension in its name), with no, one or two extensions.
Extensions == {DotGo, DotPy, DotJs, DotJava, DotCpp, <<".", "t", "x", "t">>}
Directories == {<<>>, <<"d", "/">>, <<"d", ".", "g", "o", "/">>, <<"d", ".", "p", "y", "/">>}
Names == {<<"a">>, <<"M", "a", "i", "n">>}
SourcePaths ==
    {d \o n : d \in Directories, n \in Names}
    \cup {d \o n \o e : d \in Directories, n \in Names, e \in Extensions}
    \cup {d \o n \o e \o f : d \in Directories, n \in Names,
                            e \in Extensions, f \in Extensions}

\* What the files hold.
SourceCode == "source"
TestCode == "test"

\* A task is about to be submitted for a source file that exists.
PathInit ==
    /\ workerCount = WorkerCount
    /\ shutdown = "idle"
    /\ NewState
    /\ \E p \in SourcePaths :
          sym = [op |-> "processTestFilePath", pc |-> "submit", SourcePath |-> p,
                 CodeType |-> "", testPath |-> <<>>,
                 files |-> [f \in {p} |-> SourceCode]]

\* SubmitTask: CodeType: getCodeType(sourcePath)
SetCodeType ==
    /\ sym.op = "processTestFilePath"
    /\ sym.pc = "submit"
    /\ sym' = [sym EXCEPT !.pc = "queued", !.CodeType = getCodeType(sym.SourcePath)]
    /\ UNCHANGED <<workerCount, dwVars, poolVars, callVars, llmCalls, mu, client>>

\* processTask: dw.callback(task.SourceCode, testCode,
\* processTestFilePath(task.SourcePath, task.CodeType)), with PyTestCallBack,
\* which writes the test code to the path it is handed.
CallbackWrites ==
    /\ sym.op = "processTestFilePath"
    /\ sym.pc = "queued"
    /\ LET testPath == processTestFilePath(sym.SourcePath, sym.CodeType)
       IN  sym' = [sym EXCEPT
                    !.pc = "written",
                    !.testPath = testPath,
                    !.files = [f \in DOMAIN sym.files \cup {testPath} |->
                                  IF f = testPath THEN TestCode ELSE sym.files[f]]]
    /\ UNCHANGED <<workerCount, dwVars, poolVars, callVars, llmCalls, mu, client>>

PathNext == SetCodeType \/ CallbackWrites

PathSpec == PathInit /\ [][PathNext]_vars

(***************************************************************************)
(* C40: for every source path, whatever its code type, the test path       *)
(* handed to the coverage callback differs from the source path, and when  *)
(* the callback has written the generated test to the test path the source *)
(* file still holds the source code.                                       *)
(***************************************************************************)
C40_TestPathDiffers ==
    (sym.op = "processTestFilePath" /\ sym.pc = "written") =>
        /\ sym.testPath # sym.SourcePath
        /\ sym.files[sym.SourcePath] = SourceCode

(***************************************************************************)
(* SymPromptWorker.SubmitSymTask: the source file is read and parsed, its  *)
(* function definitions are collected, the prompt template is read, and    *)
(* for each function the paths of its body are enumerated, minimized and   *)
(* rendered into the test-case descriptions of the prompt; the LLM is      *)
(* called, the test file is written and the callback, if there is one, is  *)
(* called.  Every call to the file system and to the LLM succeeds or       *)
(* fails; events keeps the calls made for the functions, each with its     *)
(* outcome.                                                                *)
(***************************************************************************)
\* The largest number of top-level functions of a source file.
MaxFunctions == 2

\* collectFuncs(node): the positions of the function definitions below a
\* node, the node first, then its named children from left to right.
RECURSIVE collectFuncs(_, _)
RECURSIVE collectChildFuncs(_, _, _)
collectChildFuncs(node, pos, i) ==
    IF i > Len(node.children) THEN <<>>
    ELSE collectFuncs(node.children[i], pos \o <<i>>)
         \o collectChildFuncs(node, pos, i + 1)
collectFuncs(node, pos) ==
    (IF node.kind = "function_definition" THEN <<pos>> ELSE <<>>)
    \o collectChildFuncs(node, pos, 1)

\* funcNames: the text of the name node, or "unknown".
FuncName(fn) ==
    IF ChildByFieldName(fn, "name") # Nil
    THEN getNodeText(ChildByFieldName(fn, "name"))
    ELSE "unknown"

\* MinimizePaths(paths), the loop run to its end.
RECURSIVE MinimizeLoop(_)
MinimizeLoop(m) ==
    IF ~LoopContinues(m) THEN m.result
    ELSE LET maxIdx == Scan(m.paths, m.used, m.covered, 1, 0, 0)
         IN  IF maxIdx = 0 THEN m.result
             ELSE MinimizeLoop([m EXCEPT
                      !.result = Append(@, m.paths[maxIdx]),
                      !.used = @ \cup {maxIdx},
                      !.covered = Fold(@, NewCover(m.paths[maxIdx], m.covered))])
MinimizePaths(paths) == MinimizeLoop(MinimizeCall(paths))

\* CollectPathsPython(bodyNode, getText, []string{}, &paths): what the
\* emitted slices read when the enumerator has returned.
CollectPathsPython(bodyNode) ==
    LET st == CollectPaths("python", bodyNode, <<>>, EmptySlice,
                           [heap |-> <<>>, paths |-> <<>>])
    IN  [k \in 1..Len(st.paths) |-> Read(st.heap, st.paths[k].slice)]

\* strings.HasPrefix(s, prefix)
HasPrefix(s, prefix) ==
    /\ Len(s) >= Len(prefix)
    /\ SubSeq(s, 1, Len(prefix)) = prefix

\* strings.TrimPrefix(s, prefix)
TrimPrefix(s, prefix) ==
    IF HasPrefix(s, prefix) THEN SubSeq(s, Len(prefix) + 1, Len(s)) ELSE s

\* strings.TrimSuffix(s, suffix)
TrimSuffix(s, suffix) ==
    IF HasSuffix(s, suffix) THEN SubSeq(s, 1, Len(s) - Len(suffix)) ELSE s

\* strings.TrimSpace(s), for the space character.
RECURSIVE TrimSpace(_)
TrimSpace(s) ==
    IF HasPrefix(s, " ") THEN TrimSpace(SubSeq(s, 2, Len(s)))
    ELSE IF HasSuffix(s, " ") THEN TrimSpace(SubSeq(s, 1, Len(s) - 1))
    ELSE s

\* j+1 < len(p) && strings.HasSuffix(p[j+1], "-else"), j counted from 1.
ElseTaken(p, j) == j + 1 <= Len(p) /\ HasSuffix(p[j + 1], "-else")

\* What one token adds to conds for one of the prefixes "if:" and "elif:".
CondOf(p, j, prefix) ==
    IF HasPrefix(p[j], prefix)
    THEN IF ElseTaken(p, j)
         THEN <<"not(" \o TrimPrefix(p[j], prefix) \o ")">>
         ELSE <<TrimPrefix(p[j], prefix)>>
    ELSE <<>>

\* conds: for j, kind := range p, from token j on.
RECURSIVE Conds(_, _)
Conds(p, j) ==
    IF j > Len(p) THEN <<>>
    ELSE CondOf(p, j, "if:") \o CondOf(p, j, "elif:") \o Conds(p, j + 1)

\* retVal: the last token with the prefix "return", trimmed.
RECURSIVE RetVal(_, _, _)
RetVal(p, j, retVal) ==
    IF j > Len(p) THEN retVal
    ELSE IF HasPrefix(p[j], "return")
    THEN RetVal(p, j + 1, TrimSpace(TrimPrefix(p[j], "return")))
    ELSE RetVal(p, j + 1, retVal)

\* pathDescs: for each path of minPaths the path, the conditions listed
\* after "test case where" and the value after "returns".
PathDescs(minPaths) ==
    [i \in 1..Len(minPaths) |->
        [path |-> minPaths[i],
         conds |-> Conds(minPaths[i], 1),
         retVal |-> RetVal(minPaths[i], 1, "")]]

\* symTestFileName(sourcePath, funcName, 0) for a source file in the working
\* directory with the extension .py.
symTestFileName(sourcePath, funcName) ==
    TrimSuffix(sourcePath, ".py") \o "_" \o funcName \o "_test_case_1.py"

\* A function definition with a name and a body.
FunctionNode(name, body) ==
    [kind |-> "function_definition", children |-> <<Node(name, <<>>), body>>,
     fields |-> [NoFields EXCEPT !["name"] = 1, !["body"] = 2]]

\* The return statement of a function.
ReturnNode == Node("return_statement", <<>>)

\* The functions of the files with several functions: an if with both arms,
\* an else arm holding another if, and a function defined inside a function.
SmallFunctions ==
    {FunctionNode("f", Node("block", <<IfElseNode(Identifier, ReturnNode, Integer)>>)),
     FunctionNode("g", Node("block", <<IfElseNode(Identifier, Integer, IfElseBlock)>>)),
     FunctionNode("h", Node("block",
         <<FunctionNode("g", Node("block", <<IfNode(Identifier, ReturnNode)>>)),
           ReturnNode>>))}

\* The parsed source files: a module of at most MaxFunctions of these
\* functions, or of one function whose body is one statement.
Modules ==
    {Node("module", fs) : fs \in UNION {[1..n -> SmallFunctions] : n \in 0..MaxFunctions}}
    \cup {Node("module", <<FunctionNode("f", Node("block", <<s>>))>>) :
             s \in Statements("python")}

SymSourcePath == "a.py"

SymInit ==
    /\ workerCount = WorkerCount
    /\ shutdown = "idle"
    /\ NewState
    /\ \E root \in Modules, hasCallback \in BOOLEAN :
          sym = [op |-> "SubmitSymTask", pc |-> "read", root |-> root,
                 callback |-> hasCallback, funcNodes |-> <<>>, idx |-> 0,
                 pathDescs |-> <<>>, files |-> {}, events |-> <<>>,
                 err |-> "none"]

\* Mutant: a failed write of the test file is not looked at.
Failed_ignoreWrite(step, ok) == step # "write" /\ ~ok

\* if err != nil { return fmt.Errorf(...) }
Failed(step, ok) == ~ok

\* The state after the steps of function idx: the next function, or return nil.
NextFunction(s) ==
    IF s.idx < Len(s.funcNodes)
    THEN [s EXCEPT !.pc = "generate", !.idx = @ + 1]
    ELSE [s EXCEPT !.pc = "returned", !.err = "nil"]

\* sw.fileIO.Read(sourcePath), the parse and collectFuncs(root)
SymRead(ok) ==
    /\ sym.op = "SubmitSymTask"
    /\ sym.pc = "read"
    /\ sym' = IF Failed("read", ok)
              THEN [sym EXCEPT !.pc = "returned", !.err = "failed to read code"]
              ELSE [sym EXCEPT !.pc = "template",
                               !.funcNodes = collectFuncs(sym.root, <<>>)]
    /\ UNCHANGED <<workerCount, dwVars, poolVars, callVars, llmCalls, mu, client>>

\* os.ReadFile("prompt.txt")
SymReadTemplate(ok) ==
    /\ sym.op = "SubmitSymTask"
    /\ sym.pc = "template"
    /\ sym' = IF Failed("template", ok)
              THEN [sym EXCEPT !.pc = "returned",
                               !.err = "failed to read prompt template"]
              ELSE NextFunction(sym)
    /\ UNCHANGED <<workerCount, dwVars, poolVars, callVars, llmCalls, mu, client>>

\* The paths of function idx are enumerated, minimized and rendered, and
\* sw.model.Generate is called with the prompt.
SymGenerate(ok) ==
    /\ sym.op = "SubmitSymTask"
    /\ sym.pc = "generate"
    /\ LET fn == NodeAt(sym.root, sym.funcNodes[sym.idx])
           minPaths == MinimizePaths(CollectPathsPython(ChildByFieldName(fn, "body")))
           called == [sym EXCEPT
                        !.pathDescs = PathDescs(minPaths),
                        !.events = Append(@, [step |-> "generate", idx |-> sym.idx,
                                              ok |-> ok])]
       IN  sym' = IF Failed("generate", ok)
                  THEN [called EXCEPT !.pc = "returned", !.err = "LLM generate failed"]
                  ELSE [called EXCEPT !.pc = "write"]
    /\ UNCHANGED <<workerCount, dwVars, poolVars, callVars, llmCalls, mu, client>>

\* sw.fileIO.Write(testFilePath, []byte(testCode))
SymWrite(ok) ==
    /\ sym.op = "SubmitSymTask"
    /\ sym.pc = "write"
    /\ LET fn == NodeAt(sym.root, sym.funcNodes[sym.idx])
           testFilePath == symTestFileName(SymSourcePath, FuncName(fn))
           called == [sym EXCEPT
                        !.files = IF ok THEN @ \cup {testFilePath} ELSE @,
                        !.events = Append(@, [step |-> "write", idx |-> sym.idx,
                                              ok |-> ok])]
       IN  sym' = IF Failed("write", ok)
                  THEN [called EXCEPT !.pc = "returned",
                                      !.err = "failed to write test file"]
                  ELSE IF sym.callback
                  THEN [called EXCEPT !.pc = "callback"]
                  ELSE NextFunction(called)
    /\ UNCHANGED <<workerCount, dwVars, poolVars, callVars, llmCalls, mu, client>>

\* if sw.callback != nil { sw.callback(code, testCode, testFilePath) }; what
\* the callback returns is dropped.
SymCallback ==
    /\ sym.op = "SubmitSymTask"
    /\ sym.pc = "callback"
    /\ sym' = NextFunction([sym EXCEPT
                  !.events = Append(@, [step |-> "callback", idx |-> sym.idx,
                                        ok |-> TRUE])])
    /\ UNCHANGED <<workerCount, dwVars, poolVars, callVars, llmCalls, mu, client>>

SymNext ==
    \/ \E ok \in BOOLEAN : SymRead(ok)
    \/ \E ok \in BOOLEAN : SymReadTemplate(ok)
    \/ \E ok \in BOOLEAN : SymGenerate(ok)
    \/ \E ok \in BOOLEAN : SymWrite(ok)
    \/ SymCallback

SymSpec == SymInit /\ [][SymNext]_vars

\* The texts of the conditions of the if statements of the source files.
CondTexts == {getNodeText(c) : c \in Conditions}

\* The conditions a rendered description lists.
Listed(d) == {d.conds[m] : m \in 1..Len(d.conds)}

(***************************************************************************)
(* C36: in every rendered test-case description, for every token of its    *)
(* path that is the else arm of an if with the condition text c the        *)
(* description lists not(c), and for every token that is the then arm it   *)
(* lists c itself, without an arm suffix.                                  *)
(***************************************************************************)
C36_ArmsRendered ==
    sym.op = "SubmitSymTask" =>
        \A i \in 1..Len(sym.pathDescs) :
            LET d == sym.pathDescs[i]
            IN  \A j \in 1..Len(d.path), c \in CondTexts :
                    /\ d.path[j] = "if:" \o c \o "-else" => ("not(" \o c \o ")") \in Listed(d)
                    /\ d.path[j] = "if:" \o c \o "-then" => c \in Listed(d)

\* The positions of the function definitions of a tree.
RECURSIVE FunctionPositions(_, _)
FunctionPositions(node, pos) ==
    (IF node.kind = "function_definition" THEN {pos} ELSE {})
    \cup UNION {FunctionPositions(node.children[i], pos \o <<i>>) :
                   i \in 1..Len(node.children)}

\* Position p comes before position q in preorder: p is above q, or p
\* branches off to the left of q.
RECURSIVE Before(_, _)
Before(p, q) ==
    IF p = <<>> THEN q # <<>>
    ELSE IF q = <<>> THEN FALSE
    ELSE IF Head(p) # Head(q) THEN Head(p) < Head(q)
    ELSE Before(Tail(p), Tail(q))

\* The event that follows a successful event e when the call goes on.
Follows(e, f) ==
    IF e.step = "generate" THEN f.step = "write" /\ f.idx = e.idx
    ELSE IF e.step = "write" /\ sym.callback THEN f.step = "callback" /\ f.idx = e.idx
    ELSE f.step = "generate" /\ f.idx = e.idx + 1

\* The error SubmitSymTask returns when a step fails.
ErrorOf(step) ==
    IF step = "generate" THEN "LLM generate failed" ELSE "failed to write test file"

(***************************************************************************)
(* C35: the functions are taken in preorder, one at a time, each with the  *)
(* LLM call, then the file write, then the callback if there is one; a     *)
(* step that fails is the last call made and its error is returned; a      *)
(* failed read makes no call at all; and the call returns nil only when    *)
(* every function has had all its steps.                                   *)
(***************************************************************************)
C35_StepsInOrderUntilError ==
    sym.op = "SubmitSymTask" =>
        LET events == sym.events
            n == Len(events)
        IN  /\ sym.pc \notin {"read", "returned"} =>
                 /\ {sym.funcNodes[k] : k \in 1..Len(sym.funcNodes)}
                       = FunctionPositions(sym.root, <<>>)
                 /\ \A k \in 1..(Len(sym.funcNodes) - 1) :
                       Before(sym.funcNodes[k], sym.funcNodes[k + 1])
            /\ n > 0 => events[1].step = "generate" /\ events[1].idx = 1
            /\ \A i \in 1..(n - 1) : events[i].ok /\ Follows(events[i], events[i + 1])
            /\ \A i \in 1..n :
                  /\ events[i].idx \in 1..Len(sym.funcNodes)
                  /\ events[i].step = "callback" => sym.callback
                  /\ ~events[i].ok =>
                        /\ i = n
                        /\ sym.pc = "returned"
                        /\ sym.err = ErrorOf(events[i].step)
            /\ sym.err \in {"failed to read code", "failed to read prompt template"} =>
                  n = 0 /\ sym.pc = "returned"
            /\ sym.err \in {"LLM generate failed", "failed to write test file"} =>
                  n > 0 /\ ~events[n].ok
            /\ sym.err = "nil" =>
                  /\ sym.pc = "returned"
                  /\ n = Len(sym.funcNodes) * (IF sym.callback THEN 3 ELSE 2)
                  /\ \A i \in 1..n : events[i].ok

\* A function defined inside the first function is the second to be
\* processed; the first function has had its three steps, and the write for
\* the second has failed.
C35_Witness ==
    /\ sym.op = "SubmitSymTask"
    /\ sym.pc = "returned"
    /\ sym.err = "failed to write test file"
    /\ Len(sym.funcNodes) = 3
    /\ Len(sym.funcNodes[2]) > 1
    /\ Len(sym.events) = 5
    /\ sym.events[3].step = "callback"
    /\ sym.events[5] = [step |-> "write", idx |-> 2, ok |-> FALSE]

=============================================================================
